---- MODULE Spec2Model ----
(***************************************************************************)
(* Strategy decomposition and sequential execution engine of the Binance   *)
(* trading bot: GridOrderManager (src/src/advanced/grid_orders.py) and     *)
(* TWAPOrderManager (src/src/advanced/twap.py), with the collaborators     *)
(* they call: TradingValidator (src/src/validators.py), BotLogger          *)
(* (src/src/logger.py) and the order-submission channel of                 *)
(* BinanceAPIClient (src/src/api_client.py); and the stop-order entry      *)
(* points of StopLimitOrderManager (src/src/advanced/stop_limit_orders.py) *)
(* and LimitOrderManager.modify_order (src/src/limit_orders_module.py).    *)
(*                                                                         *)
(* Under Spec one behaviour is one call of one strategy entry point.  Init *)
(* draws the call's arguments; the actions are the steps of the entry      *)
(* point's body: validation, schedule computation, one loop iteration per  *)
(* leg, the inter-leg sleep, and the construction and return of the        *)
(* report.  ConcurrentSpec runs two such calls in two threads,             *)
(* CancellingSpec adds a thread that calls cancel_grid_orders, FairSpec is *)
(* one call whose every step returns, CalcSpec calls a schedule calculator *)
(* on its own and CalcRepeatSpec calls the calculators repeatedly on one   *)
(* manager.  StopSpec is one call of a stop-order entry point, ModifySpec  *)
(* one call of modify_order.                                               *)
(*                                                                         *)
(* Numbers are exact rationals <<n, d>> (d > 0, lowest terms).  The source *)
(* computes in binary floating point: the comparisons of the validators    *)
(* agree with the exact ones for the inputs drawn; the rounding error of   *)
(* the computed schedules is not modelled.                                 *)
(***************************************************************************)
EXTENDS Integers, Sequences, FiniteSets, TLC

(***************************************************************************)
(* Bounds of the model.                                                    *)
(***************************************************************************)
\* The exchange's answer varies (rejection, network error, NEW, FILLED) on
\* the first VariedLegs submissions of a run; later ones are acknowledged
\* FILLED.
VariedLegs == 3

(***************************************************************************)
(* Rational arithmetic.                                                    *)
(***************************************************************************)
RECURSIVE GCD(_, _)
GCD(a, b) == IF b = 0 THEN a ELSE GCD(b, a % b)

Abs(x) == IF x < 0 THEN -x ELSE x

\* n/d in lowest terms with a positive denominator (d # 0).
Rat(n, d) ==
    LET g == GCD(Abs(n), Abs(d))
        s == IF d < 0 THEN -1 ELSE 1
    IN  <<(s * n) \div g, (s * d) \div g>>

R(k) == <<k, 1>>

\* Python's None (an absent price).
None == <<0, 0>>

RAdd(a, b) == Rat(a[1] * b[2] + b[1] * a[2], a[2] * b[2])
RSub(a, b) == Rat(a[1] * b[2] - b[1] * a[2], a[2] * b[2])
RMul(a, b) == Rat(a[1] * b[1], a[2] * b[2])
\* Division; the caller guards b # 0 (a zero divisor is ZeroDivisionError).
RDiv(a, b) == Rat(a[1] * b[2], a[2] * b[1])
RIsZero(a) == a[1] = 0

\* Floor and fractional numerator, so that comparisons multiply small numbers.
RFloor(a) == a[1] \div a[2]
RFrac(a) == a[1] % a[2]
RLt(a, b) ==
    \/ RFloor(a) < RFloor(b)
    \/ /\ RFloor(a) = RFloor(b)
       /\ RFrac(a) * b[2] < RFrac(b) * a[2]
RLe(a, b) == a = b \/ RLt(a, b)

RECURSIVE RSum(_)
RSum(s) == IF s = <<>> THEN R(0) ELSE RAdd(Head(s), RSum(Tail(s)))

RMax(a, b) == IF RLt(a, b) THEN b ELSE a
RAbs(a) == <<Abs(a[1]), a[2]>>

(***************************************************************************)
(* TradingValidator.                                                       *)
(***************************************************************************)
\* validators.py:21-25; two of the fifteen supported symbols.
supported_symbols ==
    {"BTCUSDT", "ETHUSDT", "BNBUSDT", "ADAUSDT", "XRPUSDT",
     "SOLUSDT", "DOTUSDT", "DOGEUSDT", "AVAXUSDT", "MATICUSDT",
     "LINKUSDT", "LTCUSDT", "BCHUSDT", "UNIUSDT", "ATOMUSDT"}
supported_sides == {"BUY", "SELL"}
min_quantity == Rat(1, 1000)
max_quantity == R(1000000)
min_price == Rat(1, 10000)
max_price == R(1000000)

\* str.upper().strip() on the strings the model draws.
UpperStrip(s) ==
    CASE s = "btcusdt " -> "BTCUSDT"
      [] s = "buy" -> "BUY"
      [] s = "both" -> "BOTH"
      [] OTHER -> s

\* Each validator returns [err, msg, val]: err is "none" or the exception
\* type raised, val the normalised value returned.
Ok(val) == [err |-> "none", msg |-> "", val |-> val]
Raise(err, msg) == [err |-> err, msg |-> msg, val |-> ""]
RaiseR(err, msg) == [err |-> err, msg |-> msg, val |-> None]

validate_symbol(symbol) ==
    IF symbol = "" THEN Raise("ValidationError", "Symbol cannot be empty")
    ELSE IF UpperStrip(symbol) \notin supported_symbols
         THEN Raise("ValidationError", "Symbol is not supported")
         ELSE Ok(UpperStrip(symbol))

validate_side(side) ==
    IF side = "" THEN Raise("ValidationError", "Side cannot be empty")
    ELSE IF UpperStrip(side) \notin supported_sides
         THEN Raise("ValidationError", "Side is not supported")
         ELSE Ok(UpperStrip(side))

validate_quantity(quantity) ==
    IF quantity = None
    THEN RaiseR("ValidationError", "Quantity must be a valid number")
    ELSE IF RLe(quantity, R(0))
    THEN RaiseR("ValidationError", "Quantity must be positive")
    ELSE IF RLt(quantity, min_quantity)
    THEN RaiseR("ValidationError", "Quantity must be at least min_quantity")
    ELSE IF RLt(max_quantity, quantity)
    THEN RaiseR("ValidationError", "Quantity cannot exceed max_quantity")
    ELSE Ok(quantity)

validate_price(price) ==
    IF price = None
    THEN RaiseR("ValidationError", "Price must be a valid number")
    ELSE IF RLe(price, R(0))
    THEN RaiseR("ValidationError", "Price must be positive")
    ELSE IF RLt(price, min_price)
    THEN RaiseR("ValidationError", "Price must be at least min_price")
    ELSE IF RLt(max_price, price)
    THEN RaiseR("ValidationError", "Price cannot exceed max_price")
    ELSE Ok(price)

(***************************************************************************)
(* Program constants.                                                      *)
(***************************************************************************)
MinLegs == 2
MaxGrids == 50
MaxChunks == 100
VolumeProfileChunks == 10

(***************************************************************************)
(* Schedule calculators.                                                   *)
(***************************************************************************)
RECURSIVE RPow(_, _)
RPow(a, k) == IF k = 0 THEN R(1) ELSE RMul(a, RPow(a, k - 1))

\* x ** (1/m) for m >= 1, where it is a rational with numerator and
\* denominator up to RootSearch (the model draws price bounds whose ratio has
\* such a root).
RootSearch == 16
RootCandidates(x, m) ==
    {r \in {Rat(p, q) : p \in 1..RootSearch, q \in 1..RootSearch} : RPow(r, m) = x}
HasRoot(x, m) == RootCandidates(x, m) # {}
Root(x, m) == CHOOSE r \in RootCandidates(x, m) : TRUE

\* ArithmeticPrices with the step taken over num_grids intervals.
ArithmeticPricesShortStep(lower_price, upper_price, num_grids) ==
    LET price_step == RDiv(RSub(upper_price, lower_price), R(num_grids))
    IN  [k \in 1..num_grids |-> RAdd(lower_price, RMul(R(k - 1), price_step))]

\* GridOrderManager._calculate_grid_prices.  err is "ZeroDivisionError" when
\* num_grids - 1 = 0.
ArithmeticPrices(lower_price, upper_price, num_grids) ==
    LET price_step == RDiv(RSub(upper_price, lower_price), R(num_grids - 1))
    IN  [k \in 1..num_grids |-> RAdd(lower_price, RMul(R(k - 1), price_step))]

\* GeometricPrices with the first price one ratio above lower_price.
GeometricPricesFromRatio(lower_price, upper_price, num_grids) ==
    IF num_grids <= 0 THEN <<>>
    ELSE LET ratio == Root(RDiv(upper_price, lower_price), num_grids - 1)
         IN  [k \in 1..num_grids |-> RMul(lower_price, RPow(ratio, k))]

GeometricPrices(lower_price, upper_price, num_grids) ==
    IF num_grids <= 0 THEN <<>>
    ELSE LET ratio == Root(RDiv(upper_price, lower_price), num_grids - 1)
         IN  [k \in 1..num_grids |-> RMul(lower_price, RPow(ratio, k - 1))]

_calculate_grid_prices(lower_price, upper_price, num_grids, grid_type) ==
    IF num_grids - 1 = 0
    THEN [err |-> "ZeroDivisionError", val |-> <<>>]
    ELSE IF grid_type = "GEOMETRIC"
    THEN [err |-> "none", val |-> GeometricPrices(lower_price, upper_price, num_grids)]
    ELSE [err |-> "none", val |-> ArithmeticPrices(lower_price, upper_price, num_grids)]

\* GridOrderManager._calculate_grid_quantities: both branches split evenly.
_calculate_grid_quantities(total_quantity, num_grids, side) ==
    IF side = "BOTH"
    THEN [k \in 1..num_grids |-> RDiv(total_quantity, R(num_grids))]
    ELSE [k \in 1..num_grids |-> RDiv(total_quantity, R(num_grids))]

\* The Martingale quantities of place_martingale_grid (lines 217-221).
RECURSIVE MartingaleQuantities(_, _, _)
MartingaleQuantities(current_quantity, multiplier, num_grids) ==
    IF num_grids <= 0 THEN <<>>
    ELSE <<current_quantity>> \o
         MartingaleQuantities(RMul(current_quantity, multiplier), multiplier, num_grids - 1)

\* TWAPOrderManager._calculate_volume_profile (num_chunks >= 2); list
\* position k holds the chunk of Python index i = k - 1.
FrontLoadedWeight(i, num_chunks) ==
    RSub(Rat(3, 2), RDiv(RMul(Rat(1, 2), R(i)), R(num_chunks - 1)))
BackLoadedWeight(i, num_chunks) ==
    RAdd(Rat(1, 2), RDiv(RMul(Rat(1, 2), R(i)), R(num_chunks - 1)))
MiddleLoadedWeight(i, num_chunks) ==
    LET mid_point == RDiv(R(num_chunks - 1), R(2))
        distance == RAbs(RSub(R(i), mid_point))
        weight == RSub(Rat(3, 2), RDiv(distance, mid_point))
    IN  RMax(Rat(1, 2), weight)

ProfileWeights(num_chunks, profile) ==
    [k \in 1..num_chunks |->
        CASE profile = "FRONT_LOADED" -> FrontLoadedWeight(k - 1, num_chunks)
          [] profile = "BACK_LOADED" -> BackLoadedWeight(k - 1, num_chunks)
          [] OTHER -> MiddleLoadedWeight(k - 1, num_chunks)]

\* _calculate_volume_profile dividing the weighted quantities by the number
\* of chunks and not by the sum of the weights.
VolumeProfileByCount(total_quantity, num_chunks, profile) ==
    IF profile \in {"FRONT_LOADED", "BACK_LOADED", "MIDDLE_LOADED"}
    THEN LET weights == ProfileWeights(num_chunks, profile)
         IN  [k \in 1..num_chunks |->
                 RDiv(RMul(total_quantity, weights[k]), R(num_chunks))]
    ELSE [k \in 1..num_chunks |-> RDiv(total_quantity, R(num_chunks))]

_calculate_volume_profile(total_quantity, num_chunks, profile) ==
    IF profile \in {"FRONT_LOADED", "BACK_LOADED", "MIDDLE_LOADED"}
    THEN LET weights == ProfileWeights(num_chunks, profile)
             total_weight == RSum(weights)
         IN  [k \in 1..num_chunks |->
                 RDiv(RMul(total_quantity, weights[k]), total_weight)]
    ELSE [k \in 1..num_chunks |-> RDiv(total_quantity, R(num_chunks))]

(***************************************************************************)
(* BotLogger.                                                              *)
(***************************************************************************)
\* BotLogger.info(self, message) takes no keyword argument: a call that
\* passes extra_data raises TypeError.  The result is the exception raised.
info(has_extra_data) ==
    IF has_extra_data
    THEN "info() got an unexpected keyword argument 'extra_data'"
    ELSE "none"

\* BotLogger.log_error and log_order_placed take **kwargs, so the
\* extra_data keyword is accepted and nothing is raised.
log_error(has_extra_data) == "none"
log_order_placed(has_extra_data) == "none"

(***************************************************************************)
(* The strategy entry points: validation of the arguments.                 *)
(* Each returns [err, msg, args]: the exception raised ("none" when the    *)
(* arguments pass) and the arguments as reassigned by the validators.      *)
(***************************************************************************)
Entries ==
    {"place_grid_order", "place_martingale_grid", "place_dca_grid",
     "place_twap_order", "place_twap_with_volume_profile"}
GridEntries == {"place_grid_order", "place_martingale_grid", "place_dca_grid"}
TwapEntries == {"place_twap_order", "place_twap_with_volume_profile"}

Rejected(r, a) == [err |-> r.err, msg |-> r.msg, args |-> a]
Invalid(msg, a) == [err |-> "ValidationError", msg |-> msg, args |-> a]
Accepted(a) == [err |-> "none", msg |-> "", args |-> a]

\* place_grid_order_validate without the upper bound on num_grids.
place_grid_order_validate_unbounded(a) ==
    LET symbol == validate_symbol(a.symbol)
        side == validate_side(a.side)
        total_quantity == validate_quantity(a.quantity)
        upper_price == validate_price(a.upper_price)
        lower_price == validate_price(a.lower_price)
    IN  IF symbol.err # "none" THEN Rejected(symbol, a)
        ELSE IF side.err # "none" THEN Rejected(side, a)
        ELSE IF total_quantity.err # "none" THEN Rejected(total_quantity, a)
        ELSE IF upper_price.err # "none" THEN Rejected(upper_price, a)
        ELSE IF lower_price.err # "none" THEN Rejected(lower_price, a)
        ELSE IF RLe(upper_price.val, lower_price.val)
        THEN Invalid("Upper price must be greater than lower price", a)
        ELSE IF a.num < MinLegs
        THEN Invalid("Number of grids must be at least 2", a)
        ELSE IF a.grid_type \notin {"ARITHMETIC", "GEOMETRIC"}
        THEN Invalid("Invalid grid type", a)
        ELSE Accepted([a EXCEPT !.symbol = symbol.val, !.side = side.val])

\* place_grid_order, lines 43-60.
place_grid_order_validate(a) ==
    LET symbol == validate_symbol(a.symbol)
        side == validate_side(a.side)
        total_quantity == validate_quantity(a.quantity)
        upper_price == validate_price(a.upper_price)
        lower_price == validate_price(a.lower_price)
    IN  IF symbol.err # "none" THEN Rejected(symbol, a)
        ELSE IF side.err # "none" THEN Rejected(side, a)
        ELSE IF total_quantity.err # "none" THEN Rejected(total_quantity, a)
        ELSE IF upper_price.err # "none" THEN Rejected(upper_price, a)
        ELSE IF lower_price.err # "none" THEN Rejected(lower_price, a)
        ELSE IF RLe(upper_price.val, lower_price.val)
        THEN Invalid("Upper price must be greater than lower price", a)
        ELSE IF a.num < MinLegs
        THEN Invalid("Number of grids must be at least 2", a)
        ELSE IF a.num > MaxGrids
        THEN Invalid("Number of grids cannot exceed 50", a)
        ELSE IF a.grid_type \notin {"ARITHMETIC", "GEOMETRIC"}
        THEN Invalid("Invalid grid type", a)
        ELSE Accepted([a EXCEPT !.symbol = symbol.val, !.side = side.val])

\* place_martingale_grid, lines 197-211.
place_martingale_grid_validate(a) ==
    LET symbol == validate_symbol(a.symbol)
        side == validate_side(a.side)
        base_quantity == validate_quantity(a.quantity)
        upper_price == validate_price(a.upper_price)
        lower_price == validate_price(a.lower_price)
    IN  IF symbol.err # "none" THEN Rejected(symbol, a)
        ELSE IF side.err # "none" THEN Rejected(side, a)
        ELSE IF base_quantity.err # "none" THEN Rejected(base_quantity, a)
        ELSE IF upper_price.err # "none" THEN Rejected(upper_price, a)
        ELSE IF lower_price.err # "none" THEN Rejected(lower_price, a)
        ELSE IF RLe(upper_price.val, lower_price.val)
        THEN Invalid("Upper price must be greater than lower price", a)
        ELSE IF RLe(a.multiplier, R(1))
        THEN Invalid("Multiplier must be greater than 1.0", a)
        ELSE IF a.num < MinLegs
        THEN Invalid("Number of grids must be at least 2", a)
        ELSE Accepted([a EXCEPT !.symbol = symbol.val, !.side = side.val])

\* place_dca_grid, lines 346-357: no check of num_grids.
place_dca_grid_validate(a) ==
    LET symbol == validate_symbol(a.symbol)
        side == validate_side(a.side)
        upper_price == validate_price(a.upper_price)
        lower_price == validate_price(a.lower_price)
    IN  IF symbol.err # "none" THEN Rejected(symbol, a)
        ELSE IF side.err # "none" THEN Rejected(side, a)
        ELSE IF RLe(a.quantity, R(0))
        THEN Invalid("Total USDT amount must be positive", a)
        ELSE IF upper_price.err # "none" THEN Rejected(upper_price, a)
        ELSE IF lower_price.err # "none" THEN Rejected(lower_price, a)
        ELSE IF RLe(upper_price.val, lower_price.val)
        THEN Invalid("Upper price must be greater than lower price", a)
        ELSE Accepted([a EXCEPT !.symbol = symbol.val, !.side = side.val])

\* place_twap_order's validation as it would be without the duration check
\* of lines 58-59.
place_twap_order_validate_any_duration(a) ==
    LET symbol == validate_symbol(a.symbol)
        side == validate_side(a.side)
        total_quantity == validate_quantity(a.quantity)
        price == validate_price(a.price)
    IN  IF symbol.err # "none" THEN Rejected(symbol, a)
        ELSE IF side.err # "none" THEN Rejected(side, a)
        ELSE IF total_quantity.err # "none" THEN Rejected(total_quantity, a)
        ELSE IF a.order_type \notin {"MARKET", "LIMIT"}
        THEN Invalid("Invalid order type", a)
        ELSE IF a.order_type = "LIMIT" /\ a.price = None
        THEN Invalid("Price is required for LIMIT orders", a)
        ELSE IF a.order_type = "LIMIT" /\ price.err # "none" THEN Rejected(price, a)
        ELSE IF a.num < MinLegs
        THEN Invalid("Number of chunks must be at least 2", a)
        ELSE IF a.num > MaxChunks
        THEN Invalid("Number of chunks cannot exceed 100", a)
        ELSE Accepted([a EXCEPT !.symbol = symbol.val, !.side = side.val])

\* place_twap_order, lines 44-65.
place_twap_order_validate(a) ==
    LET symbol == validate_symbol(a.symbol)
        side == validate_side(a.side)
        total_quantity == validate_quantity(a.quantity)
        price == validate_price(a.price)
    IN  IF symbol.err # "none" THEN Rejected(symbol, a)
        ELSE IF side.err # "none" THEN Rejected(side, a)
        ELSE IF total_quantity.err # "none" THEN Rejected(total_quantity, a)
        ELSE IF a.order_type \notin {"MARKET", "LIMIT"}
        THEN Invalid("Invalid order type", a)
        ELSE IF a.order_type = "LIMIT" /\ a.price = None
        THEN Invalid("Price is required for LIMIT orders", a)
        ELSE IF a.order_type = "LIMIT" /\ price.err # "none" THEN Rejected(price, a)
        ELSE IF a.duration_minutes < 1
        THEN Invalid("Duration must be at least 1 minute", a)
        ELSE IF a.num < MinLegs
        THEN Invalid("Number of chunks must be at least 2", a)
        ELSE IF a.num > MaxChunks
        THEN Invalid("Number of chunks cannot exceed 100", a)
        ELSE Accepted([a EXCEPT !.symbol = symbol.val, !.side = side.val])

\* place_twap_with_volume_profile, lines 209-215: neither duration_minutes
\* nor order_type is checked.
place_twap_with_volume_profile_validate(a) ==
    LET symbol == validate_symbol(a.symbol)
        side == validate_side(a.side)
        total_quantity == validate_quantity(a.quantity)
    IN  IF symbol.err # "none" THEN Rejected(symbol, a)
        ELSE IF side.err # "none" THEN Rejected(side, a)
        ELSE IF total_quantity.err # "none" THEN Rejected(total_quantity, a)
        ELSE IF a.volume_profile \notin
                    {"UNIFORM", "FRONT_LOADED", "BACK_LOADED", "MIDDLE_LOADED"}
        THEN Invalid("Invalid volume profile", a)
        ELSE Accepted([a EXCEPT !.symbol = symbol.val, !.side = side.val])

Validation(a) ==
    CASE a.entry = "place_grid_order" -> place_grid_order_validate(a)
      [] a.entry = "place_martingale_grid" -> place_martingale_grid_validate(a)
      [] a.entry = "place_dca_grid" -> place_dca_grid_validate(a)
      [] a.entry = "place_twap_order" -> place_twap_order_validate(a)
      [] OTHER -> place_twap_with_volume_profile_validate(a)

(***************************************************************************)
(* The strategy entry points: computation of the schedule.                 *)
(* Each returns the exception raised ("none" when there is none), the      *)
(* calculators called, the schedule and the inter-leg delay in seconds.    *)
(***************************************************************************)
Scheduled(calls, num, prices, quantities, interval) ==
    [err |-> "none", msg |-> "", calls |-> calls, num |-> num,
     grid_prices |-> prices, quantities |-> quantities,
     interval_seconds |-> interval]
Unscheduled(err, msg, calls, num) ==
    [err |-> err, msg |-> msg, calls |-> calls, num |-> num,
     grid_prices |-> <<>>, quantities |-> <<>>, interval_seconds |-> R(0)]

\* time.sleep(0.1) of the grid loops.
GridDelay == Rat(1, 10)

\* place_grid_order, lines 62-64.
place_grid_order_schedule(a) ==
    LET grid_prices ==
            _calculate_grid_prices(a.lower_price, a.upper_price, a.num, a.grid_type)
    IN  IF grid_prices.err # "none"
        THEN Unscheduled(grid_prices.err, "division by zero",
                         <<"_calculate_grid_prices">>, a.num)
        ELSE Scheduled(<<"_calculate_grid_prices", "_calculate_grid_quantities">>,
                       a.num, grid_prices.val,
                       _calculate_grid_quantities(a.quantity, a.num, a.side),
                       GridDelay)

\* place_martingale_grid, lines 213-221.
place_martingale_grid_schedule(a) ==
    LET grid_prices ==
            _calculate_grid_prices(a.lower_price, a.upper_price, a.num, a.grid_type)
    IN  IF grid_prices.err # "none"
        THEN Unscheduled(grid_prices.err, "division by zero",
                         <<"_calculate_grid_prices">>, a.num)
        ELSE Scheduled(<<"_calculate_grid_prices">>, a.num, grid_prices.val,
                       MartingaleQuantities(a.quantity, a.multiplier, a.num),
                       GridDelay)

\* place_dca_grid_schedule splitting the amount evenly as a quantity, whatever
\* the price of the leg.
place_dca_grid_schedule_uniform(a) ==
    LET grid_prices ==
            _calculate_grid_prices(a.lower_price, a.upper_price, a.num, a.grid_type)
        usdt_per_grid == RDiv(a.quantity, R(a.num))
    IN  IF grid_prices.err # "none"
        THEN Unscheduled(grid_prices.err, "division by zero",
                         <<"_calculate_grid_prices">>, a.num)
        ELSE IF a.num = 0
        THEN Unscheduled("ZeroDivisionError", "division by zero",
                         <<"_calculate_grid_prices">>, a.num)
        ELSE Scheduled(<<"_calculate_grid_prices">>, a.num, grid_prices.val,
                       [k \in 1..Len(grid_prices.val) |->
                           RDiv(usdt_per_grid, grid_prices.val[1])],
                       GridDelay)

\* place_dca_grid, lines 359-369.
place_dca_grid_schedule(a) ==
    LET grid_prices ==
            _calculate_grid_prices(a.lower_price, a.upper_price, a.num, a.grid_type)
        usdt_per_grid == RDiv(a.quantity, R(a.num))
    IN  IF grid_prices.err # "none"
        THEN Unscheduled(grid_prices.err, "division by zero",
                         <<"_calculate_grid_prices">>, a.num)
        ELSE IF a.num = 0
        THEN Unscheduled("ZeroDivisionError", "division by zero",
                         <<"_calculate_grid_prices">>, a.num)
        ELSE Scheduled(<<"_calculate_grid_prices">>, a.num, grid_prices.val,
                       [k \in 1..Len(grid_prices.val) |->
                           RDiv(usdt_per_grid, grid_prices.val[k])],
                       GridDelay)

\* place_twap_order, lines 67-72.
place_twap_order_schedule(a) ==
    LET chunk_quantity == RDiv(a.quantity, R(a.num))
        interval_seconds == RDiv(R(a.duration_minutes * 60), R(a.num - 1))
        checked == validate_quantity(chunk_quantity)
    IN  IF a.num = 0 \/ a.num - 1 = 0
        THEN Unscheduled("ZeroDivisionError", "division by zero", <<>>, a.num)
        ELSE IF checked.err # "none"
        THEN Unscheduled(checked.err, checked.msg, <<>>, a.num)
        ELSE Scheduled(<<>>, a.num, <<>>,
                       [k \in 1..a.num |-> checked.val], interval_seconds)

\* place_twap_with_volume_profile, lines 217-222.
place_twap_with_volume_profile_schedule(a) ==
    LET num_chunks == VolumeProfileChunks
        chunk_quantities ==
            _calculate_volume_profile(a.quantity, num_chunks, a.volume_profile)
        interval_seconds == RDiv(R(a.duration_minutes * 60), R(num_chunks - 1))
    IN  Scheduled(<<"_calculate_volume_profile">>, num_chunks, <<>>,
                  chunk_quantities, interval_seconds)

Schedule(a) ==
    CASE a.entry = "place_grid_order" -> place_grid_order_schedule(a)
      [] a.entry = "place_martingale_grid" -> place_martingale_grid_schedule(a)
      [] a.entry = "place_dca_grid" -> place_dca_grid_schedule(a)
      [] a.entry = "place_twap_order" -> place_twap_order_schedule(a)
      [] OTHER -> place_twap_with_volume_profile_schedule(a)

(***************************************************************************)
(* The order-submission channel (BinanceAPIClient.place_limit_order and    *)
(* place_market_order) as the strategies see it: a call either raises      *)
(* Exception(description) or returns the exchange's acknowledgement.       *)
(***************************************************************************)
ApiErrors == {"API Error 400: rejected", "Network error: timed out"}
AckStatuses == {"NEW", "FILLED"}
ExchangeAnswers(leg) ==
    IF leg <= VariedLegs THEN ApiErrors \cup AckStatuses ELSE {"FILLED"}

\* The price a market order fills at.
MarketPrice == R(150)

Ack(order, status, order_id) ==
    LET fill_price == IF order.type = "LIMIT" /\ order.price # None
                      THEN order.price ELSE MarketPrice
    IN  [orderId |-> order_id, status |-> status,
         executedQty |-> IF status = "FILLED" THEN order.quantity ELSE R(0),
         cummulativeQuoteQty |->
             IF status = "FILLED" THEN RMul(order.quantity, fill_price) ELSE R(0)]

(***************************************************************************)
(* The strategy entry points: one leg of the execution loop.               *)
(***************************************************************************)
\* place_grid_order, lines 90-94 (i is the 0-based index of the leg).
GridSide(side, i) ==
    IF side = "BOTH"
    THEN IF i % 2 = 0 THEN "BUY" ELSE "SELL"
    ELSE side

\* The order the leg of 0-based index i sends to the exchange.
LegOrder(a, prices, qtys, i) ==
    CASE a.entry = "place_grid_order" ->
           [leg |-> i + 1, type |-> "LIMIT", symbol |-> a.symbol,
            side |-> GridSide(a.side, i), quantity |-> qtys[i + 1],
            price |-> prices[i + 1], time_in_force |-> a.time_in_force]
      [] a.entry \in {"place_martingale_grid", "place_dca_grid"} ->
           [leg |-> i + 1, type |-> "LIMIT", symbol |-> a.symbol,
            side |-> a.side, quantity |-> qtys[i + 1],
            price |-> prices[i + 1], time_in_force |-> "GTC"]
      [] a.entry = "place_twap_order" ->
           [leg |-> i + 1,
            type |-> IF a.order_type = "MARKET" THEN "MARKET" ELSE "LIMIT",
            symbol |-> a.symbol, side |-> a.side, quantity |-> qtys[i + 1],
            price |-> IF a.order_type = "MARKET" THEN None ELSE a.price,
            time_in_force |-> a.time_in_force]
      [] OTHER ->
           [leg |-> i + 1,
            type |-> IF a.order_type = "MARKET" THEN "MARKET" ELSE "LIMIT",
            symbol |-> a.symbol, side |-> a.side, quantity |-> qtys[i + 1],
            price |-> IF a.order_type = "MARKET" THEN None ELSE a.price,
            time_in_force |-> "GTC"]

\* The entry appended to placed_orders (executed_chunks in twap.py).
PlacedEntry(a, order, ack) ==
    CASE a.entry \in {"place_grid_order", "place_martingale_grid"} ->
           [grid_index |-> order.leg, price |-> order.price,
            quantity |-> order.quantity, side |-> order.side,
            order_id |-> ack.orderId, status |-> ack.status]
      [] a.entry = "place_dca_grid" ->
           [grid_index |-> order.leg, price |-> order.price,
            quantity |-> order.quantity,
            usdt_amount |-> RDiv(a.quantity, R(a.num)), side |-> order.side,
            order_id |-> ack.orderId, status |-> ack.status]
      [] OTHER ->
           [chunk_index |-> order.leg, quantity |-> order.quantity,
            order_id |-> ack.orderId, status |-> ack.status,
            executed_qty |-> ack.executedQty,
            cummulative_quote_qty |-> ack.cummulativeQuoteQty]

\* The entry appended to failed_orders (failed_chunks in twap.py).
FailedEntry(a, order, error) ==
    IF a.entry \in GridEntries
    THEN [grid_index |-> order.leg, price |-> order.price,
          quantity |-> order.quantity, error |-> error]
    ELSE [chunk_index |-> order.leg, quantity |-> order.quantity,
          error |-> error]

\* The leg's own check before the exchange call: only
\* place_twap_with_volume_profile has one (line 249).
LegCheck(a, order) ==
    IF a.entry = "place_twap_with_volume_profile"
    THEN validate_quantity(order.quantity)
    ELSE Ok(order.quantity)

\* The per-leg success log: logger.info(..., extra_data=...) in every loop
\* but that of place_twap_with_volume_profile, which logs nothing.
LegLog(a) ==
    IF a.entry = "place_twap_with_volume_profile" THEN "none" ELSE info(TRUE)

\* Whether the loop sleeps after the leg of 0-based index i: the grid loops
\* after every leg, the TWAP loops after every leg but the last.
SleepsAfter(a, i) == a.entry \in GridEntries \/ i < a.num - 1

(***************************************************************************)
(* The arguments a call is made with.                                      *)
(***************************************************************************)
Symbols == {"BTCUSDT", "DOGEBTC", ""}
Sides == {"BUY", "SELL", "BOTH", "buy", ""}
PriceBounds == {R(0), R(100), R(1600)}
GridTypes == {"ARITHMETIC", "GEOMETRIC", "LOGARITHMIC"}
GridLegCounts == {0, 1, 2, 3, 5, MaxGrids + 1}
\* Martingale quantities grow as multiplier^i: leg counts whose quantities
\* stay within TLC's integers.
MartingaleLegCounts == {0, 1, 2, 3, 5}
ChunkCounts == {1, 2, 3, 5, MaxChunks + 1}

\* Fields an entry point does not take hold a fixed value.
Request(e, sy, sd, q, u, l, n, g, m, d, ot, p, vp) ==
    [entry |-> e, symbol |-> sy, side |-> sd, quantity |-> q,
     upper_price |-> u, lower_price |-> l, num |-> n, grid_type |-> g,
     multiplier |-> m, duration_minutes |-> d, order_type |-> ot,
     price |-> p, volume_profile |-> vp, time_in_force |-> "GTC"]

\* GEOMETRIC prices are drawn where the ratio has a rational root (or no
\* root is taken: num_grids - 1 <= 0 or the bounds are rejected).
GeometricDrawn(upper, lower, num) ==
    \/ num - 1 <= 0
    \/ RLe(upper, R(0)) \/ RLe(lower, R(0)) \/ RLe(upper, lower)
    \/ num <= 5 /\ HasRoot(RDiv(upper, lower), num - 1)

GridRequests ==
    {Request(e, sy, sd, q, u, l, n, g, R(2), 0, "LIMIT", None, "UNIFORM") :
        e \in {"place_grid_order"}, sy \in Symbols, sd \in Sides,
        q \in {R(0), R(1)}, u \in PriceBounds, l \in {R(100), R(1600)},
        n \in GridLegCounts, g \in GridTypes}

MartingaleRequests ==
    {Request(e, sy, sd, q, u, l, n, g, m, 0, "LIMIT", None, "UNIFORM") :
        e \in {"place_martingale_grid"}, sy \in Symbols, sd \in Sides,
        q \in {R(0), Rat(1, 100)}, u \in PriceBounds, l \in {R(100), R(1600)},
        n \in MartingaleLegCounts, g \in GridTypes, m \in {R(1), R(2)}}

DcaRequests ==
    {Request(e, sy, sd, q, u, l, n, g, R(2), 0, "LIMIT", None, "UNIFORM") :
        e \in {"place_dca_grid"}, sy \in Symbols, sd \in Sides,
        q \in {R(0), R(1000)}, u \in PriceBounds, l \in {R(100), R(1600)},
        n \in GridLegCounts, g \in GridTypes}

TwapRequests ==
    {Request(e, sy, sd, q, R(0), R(0), n, "ARITHMETIC", R(2), d, t[1], t[2], "UNIFORM") :
        e \in {"place_twap_order"}, sy \in Symbols, sd \in Sides,
        q \in {R(0), Rat(1, 1000), R(1)}, n \in ChunkCounts, d \in {0, 1},
        t \in {<<"MARKET", None>>, <<"LIMIT", R(150)>>, <<"LIMIT", None>>,
               <<"LIMIT", R(0)>>, <<"STOP", None>>}}

VolumeProfileRequests ==
    {Request(e, sy, sd, q, R(0), R(0), 0, "ARITHMETIC", R(2), d, t[1], t[2], vp) :
        e \in {"place_twap_with_volume_profile"}, sy \in Symbols, sd \in Sides,
        q \in {R(0), Rat(1, 1000), Rat(3, 250), R(1)}, d \in {-1, 0, 1},
        t \in {<<"MARKET", None>>, <<"LIMIT", R(150)>>},
        vp \in {"UNIFORM", "FRONT_LOADED", "BACK_LOADED", "MIDDLE_LOADED", "RANDOM"}}

Requests ==
    {r \in GridRequests \cup MartingaleRequests \cup DcaRequests :
        r.grid_type = "GEOMETRIC" =>
            GeometricDrawn(r.upper_price, r.lower_price, r.num)}
    \cup TwapRequests \cup VolumeProfileRequests

(***************************************************************************)
(* State: the frame of the call of the running thread (its arguments and   *)
(* locals), the suspended frame of the other thread if there is one, and   *)
(* what the threads share: the order-submission channel.  Neither manager  *)
(* class assigns an attribute outside __init__.                            *)
(***************************************************************************)
VARIABLES
    tid,               \* the running thread
    other,             \* <<frame>> of the other thread, <<>> if there is none
    cancels,           \* the caller's cancel_grid_orders calls so far
    request,           \* the arguments the caller passed
    args,              \* the parameters, as reassigned by the validators
    pc,                \* position in the entry point's body
    calc_calls,        \* schedule calculators called so far
    grid_prices,       \* grid_prices (empty in twap.py)
    quantities,        \* grid_quantities, chunk_quantities
    interval_seconds,  \* the delay between legs
    i,                 \* 0-based index of the loop's current leg
    placed_orders,     \* placed_orders, executed_chunks
    failed_orders,     \* failed_orders, failed_chunks
    total_executed,
    total_cost,
    submitted,         \* calls of the order-submission channel: order, answer
    sleeps,            \* delays slept so far
    exc,               \* exception the entry point raised ("none" if none)
    exc_msg,
    report,            \* <<result>> once the entry point returned result
    manager,           \* the attributes of the manager object (its __dict__)
    calc_log,          \* calls of the schedule calculators on the manager: call, result
    api_calls,         \* calls of the exchange API by the simple order managers
    current_price,     \* current_price of the stop-order entry points
    current_order      \* current_order of modify_order

vars ==
    <<tid, other, cancels,
      request, args, pc, calc_calls, grid_prices, quantities, interval_seconds,
      i, placed_orders, failed_orders, total_executed, total_cost, submitted,
      sleeps, exc, exc_msg, report,
      manager, calc_log, api_calls, current_price, current_order>>

\* The manager object and what only the calls outside the strategy entry
\* points use.
apart == <<manager, calc_log, api_calls, current_price, current_order>>

\* What a step of the running call leaves alone.
caller == <<tid, other, cancels, apart>>

\* The attributes __init__ assigns (grid_orders.py:17-20, twap.py:17-20,
\* limit_orders_module.py and stop_limit_orders.py alike).
Constructed ==
    [api_client |-> "api_client", validator |-> "validator", logger |-> "logger"]

\* The manager as constructed, none of its other methods called.
Untouched ==
    /\ manager = Constructed
    /\ calc_log = <<>>
    /\ api_calls = <<>>
    /\ current_price = None
    /\ current_order = <<>>

\* The locals of a call that has just been made.
Called(r) ==
    /\ request = r
    /\ args = r
    /\ pc = "validating"
    /\ calc_calls = <<>>
    /\ grid_prices = <<>>
    /\ quantities = <<>>
    /\ interval_seconds = R(0)
    /\ i = 0
    /\ placed_orders = <<>>
    /\ failed_orders = <<>>
    /\ total_executed = R(0)
    /\ total_cost = R(0)
    /\ submitted = <<>>
    /\ sleeps = <<>>
    /\ exc = "none"
    /\ exc_msg = ""
    /\ report = <<>>

\* One call, of any entry point, by a single thread.
Init ==
    /\ tid = 1
    /\ other = <<>>
    /\ cancels = <<>>
    /\ Untouched
    /\ \E r \in Requests : Called(r)

(***************************************************************************)
(* The steps of an entry point.  An exception that leaves the outer try    *)
(* block is logged with log_error and re-raised to the caller.             *)
(***************************************************************************)
Raised(err, msg) ==
    /\ log_error(TRUE) = "none"
    /\ exc' = err
    /\ exc_msg' = msg
    /\ pc' = "done"

\* The validation block of the entry point.
Validate ==
    /\ pc = "validating"
    /\ LET v == Validation(args)
       IN  /\ args' = v.args
           /\ IF v.err # "none"
              THEN Raised(v.err, v.msg)
              ELSE /\ pc' = "scheduling"
                   /\ UNCHANGED <<exc, exc_msg>>
    /\ UNCHANGED <<request, calc_calls, grid_prices, quantities,
                   interval_seconds, i, placed_orders, failed_orders,
                   total_executed, total_cost, submitted, sleeps, report>>
    /\ UNCHANGED caller

\* The schedule computation, up to the log_order_placed call and the
\* initialisation of the outcome lists.
ComputeSchedule ==
    /\ pc = "scheduling"
    /\ \E sch \in {Schedule(args)} :
           /\ calc_calls' = sch.calls
           /\ args' = [args EXCEPT !.num = sch.num]
           /\ grid_prices' = sch.grid_prices
           /\ quantities' = sch.quantities
           /\ interval_seconds' = sch.interval_seconds
           /\ IF sch.err # "none"
              THEN Raised(sch.err, sch.msg)
              ELSE /\ log_order_placed(TRUE) = "none"
                   /\ pc' = IF sch.num > 0 THEN "executing" ELSE "aggregating"
                   /\ UNCHANGED <<exc, exc_msg>>
    /\ UNCHANGED <<request, i, placed_orders, failed_orders, total_executed,
                   total_cost, submitted, sleeps, report>>
    /\ UNCHANGED caller

\* AfterLeg as an executor that aborts on the first failed leg would have it.
AfterLegBreakOnFailure ==
    IF Len(failed_orders') > Len(failed_orders)
    THEN /\ pc' = "aggregating"
         /\ i' = i + 1
    ELSE IF SleepsAfter(args, i)
    THEN /\ pc' = "sleeping"
         /\ i' = i
    ELSE /\ pc' = IF i + 1 < args.num THEN "executing" ELSE "aggregating"
         /\ i' = i + 1

\* AfterLeg as an executor that recomputes the schedule after a failed leg
\* would have it.
AfterLegRescheduleOnFailure ==
    IF Len(failed_orders') > Len(failed_orders)
    THEN /\ pc' = "scheduling"
         /\ i' = i
    ELSE IF SleepsAfter(args, i)
    THEN /\ pc' = "sleeping"
         /\ i' = i
    ELSE /\ pc' = IF i + 1 < args.num THEN "executing" ELSE "aggregating"
         /\ i' = i + 1

\* Where the loop goes after the try/except of the leg of index i.
AfterLeg ==
    IF SleepsAfter(args, i)
    THEN /\ pc' = "sleeping"
         /\ i' = i
    ELSE /\ pc' = IF i + 1 < args.num THEN "executing" ELSE "aggregating"
         /\ i' = i + 1

\* One iteration of the loop, from the try to the end of the except block.
\* The leg's own check may raise before the exchange call; the exchange
\* call raises or acknowledges; the success log may raise after the
\* acknowledgement was recorded.  Whatever is raised inside the try is
\* caught by the leg's except block.
ExecuteLeg ==
    /\ pc = "executing"
    /\ i < args.num
    /\ LET order == LegOrder(args, grid_prices, quantities, i)
           checked == LegCheck(args, order)
       IN  IF checked.err # "none"
           THEN /\ failed_orders' =
                       Append(failed_orders, FailedEntry(args, order, checked.msg))
                /\ log_error(TRUE) = "none"
                /\ UNCHANGED <<placed_orders, total_executed, total_cost, submitted>>
           ELSE \E answer \in ExchangeAnswers(i + 1) :
                /\ submitted' = Append(submitted, [run |-> tid, order |-> order, answer |-> answer])
                /\ IF answer \in ApiErrors
                   THEN /\ failed_orders' =
                               Append(failed_orders, FailedEntry(args, order, answer))
                        /\ log_error(TRUE) = "none"
                        /\ UNCHANGED <<placed_orders, total_executed, total_cost>>
                   ELSE LET ack == Ack(order, answer, Len(submitted) + 1)
                        IN  /\ placed_orders' =
                                   Append(placed_orders, PlacedEntry(args, order, ack))
                            /\ IF args.entry \in TwapEntries
                               THEN /\ total_executed' =
                                           RAdd(total_executed, ack.executedQty)
                                    /\ total_cost' =
                                           RAdd(total_cost, ack.cummulativeQuoteQty)
                               ELSE UNCHANGED <<total_executed, total_cost>>
                            /\ IF LegLog(args) # "none"
                               THEN /\ failed_orders' =
                                           Append(failed_orders,
                                                  FailedEntry(args, order, LegLog(args)))
                                    /\ log_error(TRUE) = "none"
                               ELSE UNCHANGED failed_orders
    /\ AfterLeg
    /\ UNCHANGED <<request, args, calc_calls, grid_prices, quantities,
                   interval_seconds, sleeps, exc, exc_msg, report>>
    /\ UNCHANGED caller

\* time.sleep between legs; a negative length raises ValueError, outside the
\* leg's try block.
Sleep ==
    /\ pc = "sleeping"
    /\ LET seconds == IF args.entry \in GridEntries THEN GridDelay
                      ELSE interval_seconds
       IN  IF RLt(seconds, R(0))
           THEN /\ Raised("ValueError", "sleep length must be non-negative")
                /\ UNCHANGED <<i, sleeps>>
           ELSE /\ sleeps' = Append(sleeps, seconds)
                /\ i' = i + 1
                /\ pc' = IF i + 1 < args.num THEN "executing" ELSE "aggregating"
                /\ UNCHANGED <<exc, exc_msg>>
    /\ UNCHANGED <<request, args, calc_calls, grid_prices, quantities,
                   interval_seconds, placed_orders, failed_orders,
                   total_executed, total_cost, submitted, report>>
    /\ UNCHANGED caller

\* The result dictionary built after the loop.
Result ==
    [entry |-> args.entry,
     num |-> args.num,
     total_quantity |-> IF args.entry = "place_martingale_grid"
                        THEN RSum(quantities) ELSE args.quantity,
     placed_orders |-> placed_orders,
     failed_orders |-> failed_orders,
     success_rate |-> RMul(Rat(Len(placed_orders), args.num), R(100)),
     total_executed |-> total_executed,
     total_cost |-> total_cost,
     average_price |-> IF RLt(R(0), total_executed)
                       THEN RDiv(total_cost, total_executed) ELSE R(0)]

\* After the loop: build the result, log it with
\* logger.info("... completed", extra_data=result), return it.
Complete ==
    /\ pc = "aggregating"
    /\ IF info(TRUE) # "none"
       THEN /\ Raised("TypeError", info(TRUE))
            /\ UNCHANGED report
       ELSE /\ report' = <<Result>>
            /\ pc' = "done"
            /\ UNCHANGED <<exc, exc_msg>>
    /\ UNCHANGED <<request, args, calc_calls, grid_prices, quantities,
                   interval_seconds, i, placed_orders, failed_orders,
                   total_executed, total_cost, submitted, sleeps>>
    /\ UNCHANGED caller

Next == Validate \/ ComputeSchedule \/ ExecuteLeg \/ Sleep \/ Complete

Spec == Init /\ [][Next]_vars

(***************************************************************************)
(* Threads of the caller.  Two threads each call an entry point, on one    *)
(* manager or on two; a further thread of the caller calls                 *)
(* cancel_grid_orders.  A call's arguments and locals live in its frame;   *)
(* the interpreter may switch threads between any two steps, and does so   *)
(* while a thread is in time.sleep or waits for the exchange.              *)
(***************************************************************************)
Frame ==
    [tid |-> tid, request |-> request, args |-> args, pc |-> pc,
     calc_calls |-> calc_calls, grid_prices |-> grid_prices,
     quantities |-> quantities, interval_seconds |-> interval_seconds,
     i |-> i, placed_orders |-> placed_orders, failed_orders |-> failed_orders,
     total_executed |-> total_executed, total_cost |-> total_cost,
     sleeps |-> sleeps, exc |-> exc, exc_msg |-> exc_msg, report |-> report]

\* The frame of a call thread t has just made.
CalledFrame(t, r) ==
    [tid |-> t, request |-> r, args |-> r, pc |-> "validating",
     calc_calls |-> <<>>, grid_prices |-> <<>>, quantities |-> <<>>,
     interval_seconds |-> R(0), i |-> 0, placed_orders |-> <<>>,
     failed_orders |-> <<>>, total_executed |-> R(0), total_cost |-> R(0),
     sleeps |-> <<>>, exc |-> "none", exc_msg |-> "", report |-> <<>>]

\* The frames of the calls made.
Frames == {Frame} \cup {other[k] : k \in 1..Len(other)}

\* Switch, had the managers kept the outcome lists on themselves (shared by
\* the calls) and not in the frame of each call.
SwitchSharingLists ==
    /\ other # <<>>
    /\ other[1].pc # "done"
    /\ other' = <<Frame>>
    /\ tid' = other[1].tid
    /\ request' = other[1].request
    /\ args' = other[1].args
    /\ pc' = other[1].pc
    /\ calc_calls' = other[1].calc_calls
    /\ grid_prices' = other[1].grid_prices
    /\ quantities' = other[1].quantities
    /\ interval_seconds' = other[1].interval_seconds
    /\ i' = other[1].i
    /\ total_executed' = other[1].total_executed
    /\ total_cost' = other[1].total_cost
    /\ sleeps' = other[1].sleeps
    /\ exc' = other[1].exc
    /\ exc_msg' = other[1].exc_msg
    /\ report' = other[1].report
    /\ UNCHANGED <<placed_orders, failed_orders, submitted, cancels, apart>>

\* The running thread is suspended where it is and the other one resumes.
\* A thread whose call has ended runs no more.
Switch ==
    /\ other # <<>>
    /\ other[1].pc # "done"
    /\ other' = <<Frame>>
    /\ tid' = other[1].tid
    /\ request' = other[1].request
    /\ args' = other[1].args
    /\ pc' = other[1].pc
    /\ calc_calls' = other[1].calc_calls
    /\ grid_prices' = other[1].grid_prices
    /\ quantities' = other[1].quantities
    /\ interval_seconds' = other[1].interval_seconds
    /\ i' = other[1].i
    /\ placed_orders' = other[1].placed_orders
    /\ failed_orders' = other[1].failed_orders
    /\ total_executed' = other[1].total_executed
    /\ total_cost' = other[1].total_cost
    /\ sleeps' = other[1].sleeps
    /\ exc' = other[1].exc
    /\ exc_msg' = other[1].exc_msg
    /\ report' = other[1].report
    /\ UNCHANGED <<submitted, cancels, apart>>

\* The methods of BinanceAPIClient that cancel orders.
ApiClientCancelMethods == {"cancel_order", "cancel_all_orders"}

\* GridOrderManager.cancel_grid_orders(symbol), lines 558-581: it calls
\* self.api_client.cancel_all_open_orders, logs the answer with
\* logger.info(..., extra_data=result) and returns it; whatever is raised is
\* logged with log_error and re-raised.  sent tells whether a cancel request
\* went to the exchange, after how many order submissions the call was
\* made, delayed the symbols of the runs then in their delay between legs.
CancelCall(symbol) ==
    LET sent == "cancel_all_open_orders" \in ApiClientCancelMethods
    IN  [symbol |-> symbol, after |-> Len(submitted), sent |-> sent,
         delayed |-> {f.args.symbol : f \in {g \in Frames : g.pc = "sleeping"}},
         exc |-> IF ~sent THEN "AttributeError"
                 ELSE IF info(TRUE) # "none" THEN "TypeError" ELSE "none"]

CancelSymbols == {"BTCUSDT", "ETHUSDT"}

cancel_grid_orders ==
    /\ cancels = <<>>
    /\ \E symbol \in CancelSymbols :
           /\ log_error(TRUE) = "none"
           /\ cancels' = Append(cancels, CancelCall(symbol))
    /\ UNCHANGED <<tid, other, request, args, pc, calc_calls, grid_prices,
                   quantities, interval_seconds, i, placed_orders,
                   failed_orders, total_executed, total_cost, submitted,
                   sleeps, exc, exc_msg, report, apart>>

\* The calls the two threads make.
FirstRequests ==
    {Request("place_grid_order", "BTCUSDT", "BUY", R(1), R(1600), R(100), 2,
             "ARITHMETIC", R(2), 0, "LIMIT", None, "UNIFORM"),
     Request("place_twap_order", "BTCUSDT", "BUY", R(1), R(0), R(0), 2,
             "ARITHMETIC", R(2), 1, "MARKET", None, "UNIFORM")}
SecondRequests ==
    {Request("place_dca_grid", "ETHUSDT", "SELL", R(1000), R(1600), R(100), 2,
             "ARITHMETIC", R(2), 0, "LIMIT", None, "UNIFORM")}

ConcurrentInit ==
    /\ tid = 1
    /\ \E r \in SecondRequests : other = <<CalledFrame(2, r)>>
    /\ cancels = <<>>
    /\ Untouched
    /\ \E r \in FirstRequests : Called(r)

ConcurrentNext == Next \/ Switch

ConcurrentSpec == ConcurrentInit /\ [][ConcurrentNext]_vars

\* The two calls, and a third thread of the caller that cancels.
CancellingNext == Next \/ Switch \/ cancel_grid_orders

CancellingSpec == ConcurrentInit /\ [][CancellingNext]_vars

(***************************************************************************)
(* One call where whatever the thread is at returns: each validator,       *)
(* calculator, submit call, log call and time.sleep comes back, so the     *)
(* thread always takes the next step of its entry point.                   *)
(***************************************************************************)
FairRequests ==
    FirstRequests \cup SecondRequests \cup
    {Request("place_twap_order", "BTCUSDT", "SELL", q, R(0), R(0),
             3, "ARITHMETIC", R(2), 1, "LIMIT", R(150), "UNIFORM") :
        q \in {R(0), Rat(1, 1000), R(1)}}

FairInit ==
    /\ tid = 1
    /\ other = <<>>
    /\ cancels = <<>>
    /\ Untouched
    /\ \E r \in FairRequests : Called(r)

FairSpec == FairInit /\ [][Next]_vars /\ WF_vars(Next)

(***************************************************************************)
(* The schedule calculators called on their own: one call of               *)
(* _calculate_grid_prices or of _calculate_volume_profile, with arguments  *)
(* beyond those the entry points pass.                                     *)
(***************************************************************************)
CalcPrices == {Rat(1, 2), R(1), R(8), R(100), R(200), R(1600)}
CalcLegCounts == {0, 1, 2, 3, 4, 5, 6}
CalcTotals == {Rat(1, 4), R(1), R(12)}
CalcChunkCounts == {2, 3, 4, 5, 6, 7, 8, 9, VolumeProfileChunks, VolumeProfileChunks + 1}

GridPriceCalls ==
    {r \in {Request("_calculate_grid_prices", "BTCUSDT", "BUY", R(1), u, l, n, g,
                    R(2), 0, "LIMIT", None, "UNIFORM") :
               u \in CalcPrices, l \in CalcPrices, n \in CalcLegCounts,
               g \in GridTypes} :
        (r.grid_type = "GEOMETRIC" /\ r.num - 1 # 0) =>
            /\ r.num >= 2
            /\ HasRoot(RDiv(r.upper_price, r.lower_price), r.num - 1)}

VolumeProfileCalls ==
    {Request("_calculate_volume_profile", "BTCUSDT", "BUY", q, R(0), R(0), n,
             "ARITHMETIC", R(2), 0, "MARKET", None, vp) :
        q \in CalcTotals, n \in CalcChunkCounts,
        vp \in {"UNIFORM", "FRONT_LOADED", "BACK_LOADED", "MIDDLE_LOADED", "RANDOM"}}

CalcInit ==
    /\ tid = 1
    /\ other = <<>>
    /\ cancels = <<>>
    /\ Untouched
    /\ request \in GridPriceCalls \cup VolumeProfileCalls
    /\ args = request
    /\ pc = "calling"
    /\ calc_calls = <<>>
    /\ grid_prices = <<>>
    /\ quantities = <<>>
    /\ interval_seconds = R(0)
    /\ i = 0
    /\ placed_orders = <<>>
    /\ failed_orders = <<>>
    /\ total_executed = R(0)
    /\ total_cost = R(0)
    /\ submitted = <<>>
    /\ sleeps = <<>>
    /\ exc = "none"
    /\ exc_msg = ""
    /\ report = <<>>

\* The call returns its list, or raises.
CallGridPrices ==
    /\ pc = "calling"
    /\ args.entry = "_calculate_grid_prices"
    /\ LET prices == _calculate_grid_prices(args.lower_price, args.upper_price,
                                            args.num, args.grid_type)
       IN  /\ grid_prices' = prices.val
           /\ exc' = prices.err
    /\ calc_calls' = <<"_calculate_grid_prices">>
    /\ pc' = "done"
    /\ UNCHANGED <<tid, other, cancels, request, args, quantities,
                   interval_seconds, i, placed_orders, failed_orders,
                   total_executed, total_cost, submitted, sleeps, exc_msg, report,
                   apart>>

CallVolumeProfile ==
    /\ pc = "calling"
    /\ args.entry = "_calculate_volume_profile"
    /\ quantities' = _calculate_volume_profile(args.quantity, args.num,
                                               args.volume_profile)
    /\ calc_calls' = <<"_calculate_volume_profile">>
    /\ pc' = "done"
    /\ UNCHANGED <<tid, other, cancels, request, args, grid_prices,
                   interval_seconds, i, placed_orders, failed_orders,
                   total_executed, total_cost, submitted, sleeps, exc, exc_msg,
                   report, apart>>

CalcNext == CallGridPrices \/ CallVolumeProfile

CalcSpec == CalcInit /\ [][CalcNext]_vars

(***************************************************************************)
(* The schedule calculators called again and again on one manager, with    *)
(* any arguments in any order.  calc_log keeps each call and what it       *)
(* returned (for _calculate_grid_prices: the exception raised, if any).    *)
(***************************************************************************)
MaxCalls == 3

GridPricesArguments ==
    {<<R(100), R(1600), n, g>> : n \in {1, 5}, g \in {"ARITHMETIC", "GEOMETRIC"}}
GridQuantitiesArguments ==
    {<<q, 2, sd>> : q \in {R(1), R(12)}, sd \in {"BUY", "BOTH"}}
VolumeProfileArguments ==
    {<<t[1], n, t[2]>> : t \in {<<R(1), "UNIFORM">>, <<R(12), "FRONT_LOADED">>},
                         n \in {2, VolumeProfileChunks}}

\* A call with the arguments c that returned result.
Returns(name, c, result) ==
    Append(calc_log, [name |-> name, arguments |-> c, result |-> result])

\* A _calculate_volume_profile that keeps the profile it computed on the
\* manager and hands out the one kept by the call before.
CalculateVolumeProfileKept ==
    /\ pc = "calling"
    /\ Len(calc_log) < MaxCalls
    /\ \E c \in VolumeProfileArguments :
           LET computed == _calculate_volume_profile(c[1], c[2], c[3])
           IN  /\ calc_log' =
                      Returns("_calculate_volume_profile", c,
                              IF "last_profile" \in DOMAIN manager
                              THEN manager.last_profile ELSE computed)
               /\ manager' = [a \in DOMAIN manager \cup {"last_profile"} |->
                                 IF a = "last_profile" THEN computed ELSE manager[a]]
    /\ UNCHANGED <<tid, other, cancels, request, args, pc, calc_calls,
                   grid_prices, quantities, interval_seconds, i, placed_orders,
                   failed_orders, total_executed, total_cost, submitted, sleeps,
                   exc, exc_msg, report, api_calls, current_price, current_order>>

CalculateGridPrices ==
    /\ pc = "calling"
    /\ Len(calc_log) < MaxCalls
    /\ \E c \in GridPricesArguments :
           calc_log' = Returns("_calculate_grid_prices", c,
                               _calculate_grid_prices(c[1], c[2], c[3], c[4]))
    /\ UNCHANGED <<tid, other, cancels, request, args, pc, calc_calls,
                   grid_prices, quantities, interval_seconds, i, placed_orders,
                   failed_orders, total_executed, total_cost, submitted, sleeps,
                   exc, exc_msg, report, manager, api_calls, current_price,
                   current_order>>

CalculateGridQuantities ==
    /\ pc = "calling"
    /\ Len(calc_log) < MaxCalls
    /\ \E c \in GridQuantitiesArguments :
           calc_log' = Returns("_calculate_grid_quantities", c,
                               _calculate_grid_quantities(c[1], c[2], c[3]))
    /\ UNCHANGED <<tid, other, cancels, request, args, pc, calc_calls,
                   grid_prices, quantities, interval_seconds, i, placed_orders,
                   failed_orders, total_executed, total_cost, submitted, sleeps,
                   exc, exc_msg, report, manager, api_calls, current_price,
                   current_order>>

CalculateVolumeProfile ==
    /\ pc = "calling"
    /\ Len(calc_log) < MaxCalls
    /\ \E c \in VolumeProfileArguments :
           calc_log' = Returns("_calculate_volume_profile", c,
                               _calculate_volume_profile(c[1], c[2], c[3]))
    /\ UNCHANGED <<tid, other, cancels, request, args, pc, calc_calls,
                   grid_prices, quantities, interval_seconds, i, placed_orders,
                   failed_orders, total_executed, total_cost, submitted, sleeps,
                   exc, exc_msg, report, manager, api_calls, current_price,
                   current_order>>

\* A manager as constructed, no entry point running.
CalcRepeatInit ==
    /\ tid = 1
    /\ other = <<>>
    /\ cancels = <<>>
    /\ Untouched
    /\ request = <<>>
    /\ args = <<>>
    /\ pc = "calling"
    /\ calc_calls = <<>>
    /\ grid_prices = <<>>
    /\ quantities = <<>>
    /\ interval_seconds = R(0)
    /\ i = 0
    /\ placed_orders = <<>>
    /\ failed_orders = <<>>
    /\ total_executed = R(0)
    /\ total_cost = R(0)
    /\ submitted = <<>>
    /\ sleeps = <<>>
    /\ exc = "none"
    /\ exc_msg = ""
    /\ report = <<>>

CalcRepeatNext ==
    CalculateGridPrices \/ CalculateGridQuantities \/ CalculateVolumeProfile

CalcRepeatSpec == CalcRepeatInit /\ [][CalcRepeatNext]_vars

(***************************************************************************)
(* StopLimitOrderManager: place_stop_limit_order, place_stop_market_order, *)
(* place_take_profit_market_order and place_take_profit_limit_order.       *)
(* Each validates its parameters, fetches the ticker price, validates the  *)
(* stop price against it, places the order, logs and returns the           *)
(* exchange's response.  api_calls keeps every call of the API client      *)
(* with what it answered.                                                  *)
(***************************************************************************)
\* TradingValidator.validate_time_in_force.
validate_time_in_force(time_in_force) ==
    IF time_in_force = "" THEN Ok("GTC")
    ELSE IF UpperStrip(time_in_force) \notin {"GTC", "IOC", "FOK", "GTX"}
         THEN Raise("ValidationError", "Time in force is not valid")
         ELSE Ok(UpperStrip(time_in_force))

\* TradingValidator.validate_market_order_params: the dict's values are
\* evaluated in order, the first validator that raises ends it.
validate_market_order_params(symbol, side, quantity) ==
    LET sy == validate_symbol(symbol)
        sd == validate_side(side)
        q == validate_quantity(quantity)
    IN  IF sy.err # "none" THEN sy
        ELSE IF sd.err # "none" THEN sd
        ELSE IF q.err # "none" THEN q
        ELSE Ok([symbol |-> sy.val, side |-> sd.val, quantity |-> q.val])

\* TradingValidator.validate_limit_order_params.
validate_limit_order_params(symbol, side, quantity, price, time_in_force) ==
    LET sy == validate_symbol(symbol)
        sd == validate_side(side)
        q == validate_quantity(quantity)
        p == validate_price(price)
        tif == validate_time_in_force(time_in_force)
    IN  IF sy.err # "none" THEN sy
        ELSE IF sd.err # "none" THEN sd
        ELSE IF q.err # "none" THEN q
        ELSE IF p.err # "none" THEN p
        ELSE IF tif.err # "none" THEN tif
        ELSE Ok([symbol |-> sy.val, side |-> sd.val, quantity |-> q.val,
                 price |-> p.val, time_in_force |-> tif.val])

\* validate_stop_price as it would be if a stop price equal to the current
\* price passed.
validate_stop_price_or_equal(stop_price, side, current) ==
    LET checked == validate_price(stop_price)
    IN  IF checked.err # "none" THEN checked
        ELSE IF side = "BUY" /\ RLt(checked.val, current)
        THEN RaiseR("ValidationError",
                    "Stop price for BUY orders must be above current price")
        ELSE IF side = "SELL" /\ RLt(current, checked.val)
        THEN RaiseR("ValidationError",
                    "Stop price for SELL orders must be below current price")
        ELSE Ok(checked.val)

\* TradingValidator.validate_stop_price.
validate_stop_price(stop_price, side, current) ==
    LET checked == validate_price(stop_price)
    IN  IF checked.err # "none" THEN checked
        ELSE IF side = "BUY" /\ RLe(checked.val, current)
        THEN RaiseR("ValidationError",
                    "Stop price for BUY orders must be above current price")
        ELSE IF side = "SELL" /\ RLe(current, checked.val)
        THEN RaiseR("ValidationError",
                    "Stop price for SELL orders must be below current price")
        ELSE Ok(checked.val)

\* float() on the price and quantity strings the exchange sends.
float(s) ==
    CASE s = "100.00" -> Ok(R(100))
      [] s = "150.50" -> Ok(Rat(301, 2))
      [] s = "1.000" -> Ok(R(1))
      [] OTHER -> RaiseR("ValueError", "could not convert string to float")

\* What get_ticker_price answers: it raises Exception(err) or returns the
\* ticker (err is "none").
TickerAnswers ==
    {[err |-> e, price |-> ""] : e \in ApiErrors}
    \cup {[err |-> "none", price |-> s] : s \in {"100.00", "150.50", ""}}

StopLimitEntries == {"place_stop_limit_order", "place_take_profit_limit_order"}
StopMarketEntries == {"place_stop_market_order", "place_take_profit_market_order"}
StopEntries == StopLimitEntries \cup StopMarketEntries

\* The method of BinanceAPIClient each entry point places its order with.
StopPlaceMethod(entry) == entry

StopPrices == {R(0), R(100), R(120), Rat(301, 2), R(200)}

StopRequests ==
    {[entry |-> e, symbol |-> sy, side |-> sd, quantity |-> q, price |-> p,
      stop_price |-> sp, time_in_force |-> tif] :
        e \in StopEntries, sy \in {"BTCUSDT", "DOGEBTC"},
        sd \in {"BUY", "SELL", "buy", "BOTH"}, q \in {R(0), R(1)},
        p \in {R(0), R(120)}, sp \in StopPrices, tif \in {"GTC", "DAY"}}

\* A call of a stop-order entry point has just been made.
StopInit ==
    /\ tid = 1
    /\ other = <<>>
    /\ cancels = <<>>
    /\ Untouched
    /\ request \in StopRequests
    /\ args = request
    /\ pc = "validating"
    /\ calc_calls = <<>>
    /\ grid_prices = <<>>
    /\ quantities = <<>>
    /\ interval_seconds = R(0)
    /\ i = 0
    /\ placed_orders = <<>>
    /\ failed_orders = <<>>
    /\ total_executed = R(0)
    /\ total_cost = R(0)
    /\ submitted = <<>>
    /\ sleeps = <<>>
    /\ exc = "none"
    /\ exc_msg = ""
    /\ report = <<>>

\* What the steps of the simple order managers leave alone.
strategy ==
    <<tid, other, cancels, request, calc_calls, grid_prices, quantities,
      interval_seconds, i, placed_orders, failed_orders, total_executed,
      total_cost, submitted, sleeps, manager, calc_log>>

\* validate_limit_order_params or validate_market_order_params.
ValidateStopParams ==
    /\ pc = "validating"
    /\ request.entry \in StopEntries
    /\ LET v == IF request.entry \in StopLimitEntries
                THEN validate_limit_order_params(
                         request.symbol, request.side, request.quantity,
                         request.price, request.time_in_force)
                ELSE validate_market_order_params(
                         request.symbol, request.side, request.quantity)
       IN  IF v.err # "none"
           THEN /\ Raised(v.err, v.msg)
                /\ UNCHANGED args
           ELSE /\ args' = v.val
                /\ pc' = "fetching"
                /\ UNCHANGED <<exc, exc_msg>>
    /\ UNCHANGED <<api_calls, current_price, current_order, report>>
    /\ UNCHANGED strategy

\* ticker = get_ticker_price(symbol); current_price = float(ticker['price']).
FetchCurrentPrice ==
    /\ pc = "fetching"
    /\ request.entry \in StopEntries
    /\ \E answer \in TickerAnswers :
           /\ api_calls' = Append(api_calls,
                  [method |-> "get_ticker_price", symbol |-> args.symbol,
                   answer |-> answer])
           /\ IF answer.err # "none"
              THEN /\ Raised("Exception", answer.err)
                   /\ UNCHANGED current_price
              ELSE IF float(answer.price).err # "none"
              THEN /\ Raised(float(answer.price).err, float(answer.price).msg)
                   /\ UNCHANGED current_price
              ELSE /\ current_price' = float(answer.price).val
                   /\ pc' = "checking"
                   /\ UNCHANGED <<exc, exc_msg>>
    /\ UNCHANGED <<args, current_order, report>>
    /\ UNCHANGED strategy

\* validated_stop_price = validate_stop_price(stop_price, side, current_price).
CheckStopPrice ==
    /\ pc = "checking"
    /\ LET v == validate_stop_price(request.stop_price, args.side, current_price)
       IN  IF v.err # "none"
           THEN /\ Raised(v.err, v.msg)
                /\ UNCHANGED args
           ELSE /\ args' = [f \in DOMAIN args \cup {"stop_price"} |->
                               IF f = "stop_price" THEN v.val ELSE args[f]]
                /\ pc' = "placing"
                /\ UNCHANGED <<exc, exc_msg>>
    /\ UNCHANGED <<api_calls, current_price, current_order, report>>
    /\ UNCHANGED strategy

\* The order is sent; the response is logged and returned, an exception of
\* the API client is logged and re-raised.
PlaceStopOrder ==
    /\ pc = "placing"
    /\ \E answer \in ApiErrors \cup {"NEW"} :
           /\ api_calls' = Append(api_calls,
                  [method |-> StopPlaceMethod(request.entry), order |-> args,
                   answer |-> answer])
           /\ IF answer \in ApiErrors
              THEN /\ Raised("Exception", answer)
                   /\ UNCHANGED report
              ELSE /\ log_order_placed(FALSE) = "none"
                   /\ info(FALSE) = "none"
                   /\ report' = <<[orderId |-> Len(api_calls) + 1, status |-> answer]>>
                   /\ pc' = "done"
                   /\ UNCHANGED <<exc, exc_msg>>
    /\ UNCHANGED <<args, current_price, current_order>>
    /\ UNCHANGED strategy

StopNext ==
    ValidateStopParams \/ FetchCurrentPrice \/ CheckStopPrice \/ PlaceStopOrder

StopSpec == StopInit /\ [][StopNext]_vars

(***************************************************************************)
(* LimitOrderManager.modify_order: the order's status is fetched, the      *)
(* order is cancelled with self.cancel_order and a replacement is placed   *)
(* with self.place_limit_order, which validates its parameters, fetches    *)
(* the ticker price and sends the order.  Whatever is raised on the way is *)
(* logged as MODIFY_ORDER_ERROR and re-raised.                             *)
(***************************************************************************)
\* What get_order_status answers: it raises Exception(err) or returns the
\* order (err is "none").
OrderStatuses == {"NEW", "PARTIALLY_FILLED", "FILLED", "CANCELED"}
StatusAnswers ==
    {[err |-> e, status |-> "", side |-> "", origQty |-> "", price |-> "",
      timeInForce |-> ""] : e \in ApiErrors}
    \cup {[err |-> "none", status |-> st, side |-> sd, origQty |-> "1.000",
           price |-> "100.00", timeInForce |-> "GTC"] :
             st \in OrderStatuses, sd \in {"BUY", "SELL"}}

\* Python's x or y on the optional numbers of modify_order: None and 0
\* count as false.
Or(x, y) == IF x = None \/ RIsZero(x) THEN y ELSE x

ModifyRequests ==
    {[entry |-> "modify_order", symbol |-> sy, order_id |-> 7,
      new_quantity |-> q, new_price |-> p] :
        sy \in {"BTCUSDT", "DOGEBTC"}, q \in {None, R(0), R(2)},
        p \in {None, R(120), R(2000000)}}

\* A call of modify_order has just been made.
ModifyInit ==
    /\ tid = 1
    /\ other = <<>>
    /\ cancels = <<>>
    /\ Untouched
    /\ request \in ModifyRequests
    /\ args = request
    /\ pc = "status"
    /\ calc_calls = <<>>
    /\ grid_prices = <<>>
    /\ quantities = <<>>
    /\ interval_seconds = R(0)
    /\ i = 0
    /\ placed_orders = <<>>
    /\ failed_orders = <<>>
    /\ total_executed = R(0)
    /\ total_cost = R(0)
    /\ submitted = <<>>
    /\ sleeps = <<>>
    /\ exc = "none"
    /\ exc_msg = ""
    /\ report = <<>>

\* modify_order as it would be without the check of the status.
FetchOrderStatusUnchecked ==
    /\ pc = "status"
    /\ request.entry = "modify_order"
    /\ \E answer \in StatusAnswers :
           /\ api_calls' = Append(api_calls,
                  [method |-> "get_order_status", symbol |-> request.symbol,
                   order_id |-> request.order_id, answer |-> answer])
           /\ IF answer.err # "none"
              THEN /\ Raised("Exception", answer.err)
                   /\ UNCHANGED current_order
              ELSE /\ current_order' = <<answer>>
                   /\ pc' = "cancelling"
                   /\ UNCHANGED <<exc, exc_msg>>
    /\ UNCHANGED <<args, current_price, report>>
    /\ UNCHANGED strategy

\* current_order = get_order_status(symbol, order_id) and the check of its
\* status (lines 210-213).
FetchOrderStatus ==
    /\ pc = "status"
    /\ request.entry = "modify_order"
    /\ \E answer \in StatusAnswers :
           /\ api_calls' = Append(api_calls,
                  [method |-> "get_order_status", symbol |-> request.symbol,
                   order_id |-> request.order_id, answer |-> answer])
           /\ IF answer.err # "none"
              THEN /\ Raised("Exception", answer.err)
                   /\ UNCHANGED current_order
              ELSE IF answer.status # "NEW"
              THEN /\ Raised("Exception", "Cannot modify order")
                   /\ current_order' = <<answer>>
              ELSE /\ current_order' = <<answer>>
                   /\ pc' = "cancelling"
                   /\ UNCHANGED <<exc, exc_msg>>
    /\ UNCHANGED <<args, current_price, report>>
    /\ UNCHANGED strategy

\* self.cancel_order(symbol, order_id) (lines 146-165): the cancel is sent
\* and logged; an exception of the API client is logged and re-raised.
CancelCurrentOrder ==
    /\ pc = "cancelling"
    /\ request.entry = "modify_order"
    /\ \E answer \in ApiErrors \cup {"CANCELED"} :
           /\ api_calls' = Append(api_calls,
                  [method |-> "cancel_order", symbol |-> request.symbol,
                   order_id |-> request.order_id, answer |-> answer])
           /\ IF answer \in ApiErrors
              THEN Raised("Exception", answer)
              ELSE /\ info(FALSE) = "none"
                   /\ pc' = "replacing"
                   /\ UNCHANGED <<exc, exc_msg>>
    /\ UNCHANGED <<args, current_price, current_order, report>>
    /\ UNCHANGED strategy

\* The arguments of the replacement (lines 218-228) and the validation that
\* opens place_limit_order (line 39).
ValidateReplacement ==
    /\ pc = "replacing"
    /\ request.entry = "modify_order"
    /\ LET new_quantity ==
               Or(request.new_quantity, float(current_order[1].origQty).val)
           new_price == Or(request.new_price, float(current_order[1].price).val)
           v == validate_limit_order_params(
                    request.symbol, current_order[1].side, new_quantity,
                    new_price, current_order[1].timeInForce)
       IN  IF v.err # "none"
           THEN /\ Raised(v.err, v.msg)
                /\ UNCHANGED args
           ELSE /\ args' = v.val
                /\ pc' = "pricing"
                /\ UNCHANGED <<exc, exc_msg>>
    /\ UNCHANGED <<api_calls, current_price, current_order, report>>
    /\ UNCHANGED strategy

\* place_limit_order, lines 41-43: the ticker price is fetched.
FetchReplacementPrice ==
    /\ pc = "pricing"
    /\ request.entry = "modify_order"
    /\ \E answer \in TickerAnswers :
           /\ api_calls' = Append(api_calls,
                  [method |-> "get_ticker_price", symbol |-> args.symbol,
                   answer |-> answer])
           /\ IF answer.err # "none"
              THEN /\ Raised("Exception", answer.err)
                   /\ UNCHANGED current_price
              ELSE IF float(answer.price).err # "none"
              THEN /\ Raised(float(answer.price).err, float(answer.price).msg)
                   /\ UNCHANGED current_price
              ELSE /\ current_price' = float(answer.price).val
                   /\ pc' = "sending"
                   /\ UNCHANGED <<exc, exc_msg>>
    /\ UNCHANGED <<args, current_order, report>>
    /\ UNCHANGED strategy

\* place_limit_order, lines 45-77, and the end of modify_order (lines
\* 231-244): the replacement is sent, logged and returned.
PlaceReplacement ==
    /\ pc = "sending"
    /\ request.entry = "modify_order"
    /\ \E answer \in ApiErrors \cup {"NEW"} :
           /\ api_calls' = Append(api_calls,
                  [method |-> "place_limit_order", order |-> args,
                   answer |-> answer])
           /\ IF answer \in ApiErrors
              THEN /\ Raised("Exception", answer)
                   /\ UNCHANGED report
              ELSE /\ log_order_placed(FALSE) = "none"
                   /\ info(FALSE) = "none"
                   /\ report' = <<[orderId |-> request.order_id + 1, status |-> answer]>>
                   /\ pc' = "done"
                   /\ UNCHANGED <<exc, exc_msg>>
    /\ UNCHANGED <<args, current_price, current_order>>
    /\ UNCHANGED strategy

ModifyNext ==
    \/ FetchOrderStatus
    \/ CancelCurrentOrder
    \/ ValidateReplacement
    \/ FetchReplacementPrice
    \/ PlaceReplacement

ModifySpec == ModifyInit /\ [][ModifyNext]_vars

(***************************************************************************)
(* Vocabulary of the properties.                                           *)
(***************************************************************************)
\* Legs whose try/except block has run.
Attempted ==
    IF pc = "sleeping" \/ (pc = "done" /\ exc = "ValueError") THEN i + 1 ELSE i

LegIndex(e) == IF "grid_index" \in DOMAIN e THEN e.grid_index ELSE e.chunk_index
PlacedLegs == {LegIndex(placed_orders[k]) : k \in 1..Len(placed_orders)}
FailedLegs == {LegIndex(failed_orders[k]) : k \in 1..Len(failed_orders)}
SubmittedLegs == [k \in 1..Len(submitted) |-> submitted[k].order.leg]
\* Legs whose order-submission call raised.
SubmitFailures ==
    {submitted[k].order.leg : k \in {j \in 1..Len(submitted) : submitted[j].answer \in ApiErrors}}
Returned == pc = "done" /\ exc = "none" /\ report # <<>>

\* The grid requests C5 is about.
BadGridRequest ==
    \/ RLe(request.upper_price, request.lower_price)
    \/ request.num < 2
    \/ request.num > 50
    \/ request.grid_type \notin {"ARITHMETIC", "GEOMETRIC"}

\* The request passes the entry point's validation once side is a plain BUY.
OtherwiseValid == Validation([request EXCEPT !.side = "BUY"]).err = "none"

(***************************************************************************)
(* C1.  As claimed: in every run that passes validation, the              *)
(* order-submission call is invoked for legs 1..n in strictly increasing   *)
(* order, exactly once per attempted leg.                                  *)
(***************************************************************************)
C1_ExactlyOncePerLeg == SubmittedLegs = [k \in 1..Attempted |-> k]

\* A leg place_twap_with_volume_profile rejects by its own quantity check.
SkippedLeg(k) ==
    /\ args.entry = "place_twap_with_volume_profile"
    /\ validate_quantity(quantities[k]).err # "none"

(***************************************************************************)
(* C1, amended.  At every point of a run the order-submission call has     *)
(* been invoked in strictly increasing leg order, exactly once for every   *)
(* attempted leg but those place_twap_with_volume_profile rejects by its   *)
(* own quantity check (never for those); and when the loop ends every leg  *)
(* 1..n has been attempted, whatever legs failed.                          *)
(***************************************************************************)
C1_SubmitOrder ==
    /\ \A a, b \in 1..Len(submitted) :
           a < b => SubmittedLegs[a] < SubmittedLegs[b]
    /\ {SubmittedLegs[k] : k \in 1..Len(submitted)} =
           {k \in 1..Attempted : ~SkippedLeg(k)}
    /\ pc = "aggregating" => Attempted = args.num

\* A three-leg (or longer) run whose first submission failed and whose
\* later legs were all submitted.
C1_Witness ==
    /\ pc = "aggregating"
    /\ args.num >= 3
    /\ Len(submitted) = args.num
    /\ submitted[1].answer \in ApiErrors

(***************************************************************************)
(* C2.  As claimed: when the order-submission call of some leg raised,     *)
(* the error is recorded as that leg's failed outcome with its             *)
(* description, no exception leaves the entry point and a report is        *)
(* returned (stated for calls with a non-negative duration).               *)
(***************************************************************************)
C2_SubmitErrorsEndInReport ==
    (pc = "done" /\ SubmitFailures # {} /\ request.duration_minutes >= 0) =>
        /\ \A k \in 1..Len(submitted) :
               submitted[k].answer \in ApiErrors =>
                   \E f \in 1..Len(failed_orders) :
                       /\ LegIndex(failed_orders[f]) = submitted[k].order.leg
                       /\ failed_orders[f].error = submitted[k].answer
        /\ Returned

(***************************************************************************)
(* C3.  As claimed: at every point each attempted leg is in exactly one of *)
(* placed_orders and failed_orders, once.                                  *)
(***************************************************************************)
C3_ExactlyOneOutcome ==
    /\ \A k \in 1..Attempted : (k \in PlacedLegs) # (k \in FailedLegs)
    /\ Len(placed_orders) + Len(failed_orders) = Attempted

(***************************************************************************)
(* C4.  As claimed: a run of n legs (non-negative duration) whose          *)
(* submissions failed on exactly the legs F ends with a report of          *)
(* n - |F| placed and |F| failed outcomes and a success rate of            *)
(* (n - |F|) / n * 100, between 0 and 100.                                 *)
(***************************************************************************)
C4_ReportCounts ==
    (/\ pc = "done"
     /\ args.num >= 1
     /\ Len(submitted) = args.num
     /\ request.duration_minutes >= 0) =>
        /\ Returned
        /\ Len(report[1].placed_orders) = args.num - Cardinality(SubmitFailures)
        /\ Len(report[1].failed_orders) = Cardinality(SubmitFailures)
        /\ report[1].success_rate =
               RMul(Rat(args.num - Cardinality(SubmitFailures), args.num), R(100))
        /\ RLe(R(0), report[1].success_rate)
        /\ RLe(report[1].success_rate, R(100))

(***************************************************************************)
(* C5.  place_grid_order called with upper_price <= lower_price,           *)
(* num_grids < 2, num_grids > 50 or an unknown grid_type never computes a  *)
(* schedule and never submits an order, and ends with ValidationError.     *)
(***************************************************************************)
C5_GridRejectedBeforeSchedule ==
    (request.entry = "place_grid_order" /\ BadGridRequest) =>
        /\ pc \in {"validating", "done"}
        /\ calc_calls = <<>>
        /\ submitted = <<>>
        /\ pc = "done" => exc = "ValidationError"

\* A grid request valid in all but its 51 grids has been rejected.
C5_Witness ==
    /\ request.entry = "place_grid_order"
    /\ request.num = 51
    /\ request.grid_type = "ARITHMETIC"
    /\ pc = "done"
    /\ exc = "ValidationError"
    /\ exc_msg = "Number of grids cannot exceed 50"

(***************************************************************************)
(* C6.  As claimed: an entry point that ends by raising has submitted no   *)
(* order (stated for calls with a non-negative duration).                  *)
(***************************************************************************)
C6_RaiseMeansNothingSubmitted ==
    (pc = "done" /\ exc # "none" /\ request.duration_minutes >= 0) =>
        submitted = <<>>

(***************************************************************************)
(* C7.  As claimed: in the grid entry points a leg count below 2 is        *)
(* rejected with ValidationError before _calculate_grid_prices runs, and   *)
(* no division by zero is raised.                                          *)
(***************************************************************************)
C7_LegCountCheckedBeforeDivision ==
    (request.entry \in GridEntries /\ request.num < 2) =>
        /\ calc_calls = <<>>
        /\ exc # "ZeroDivisionError"
        /\ pc = "done" => exc = "ValidationError"

(***************************************************************************)
(* C8.  As claimed: a run that has submitted an order has 2 <= n <= 50     *)
(* legs and upper_price > lower_price in the grid entry points, and        *)
(* 2 <= n <= 100 legs in the time-sliced ones.                             *)
(***************************************************************************)
C8_LegCountWithinBounds ==
    submitted # <<>> =>
        /\ args.entry \in GridEntries =>
               /\ 2 <= args.num /\ args.num <= 50
               /\ RLt(args.lower_price, args.upper_price)
        /\ args.entry \in TwapEntries => 2 <= args.num /\ args.num <= 100

(***************************************************************************)
(* C9.  As claimed: a place_grid_order request with side BOTH and          *)
(* otherwise valid arguments is not rejected by validation.                *)
(***************************************************************************)
C9_BothAccepted ==
    (/\ request.entry = "place_grid_order"
     /\ request.side = "BOTH"
     /\ OtherwiseValid) =>
        ~(pc = "done" /\ exc = "ValidationError")

(***************************************************************************)
(* C10.  As claimed: a place_grid_order run with otherwise valid           *)
(* arguments has, when it ends, submitted every leg: with side BOTH the    *)
(* leg of 0-based index i as BUY for even i and SELL for odd i, with side  *)
(* BUY or SELL every leg with that side.                                   *)
(***************************************************************************)
C10_GridLegSides ==
    (/\ request.entry = "place_grid_order"
     /\ UpperStrip(request.side) \in {"BUY", "SELL", "BOTH"}
     /\ OtherwiseValid
     /\ pc = "done") =>
        /\ Len(submitted) = request.num
        /\ \A k \in 1..Len(submitted) :
               submitted[k].order.side =
                   IF UpperStrip(request.side) = "BOTH"
                   THEN (IF (k - 1) % 2 = 0 THEN "BUY" ELSE "SELL")
                   ELSE UpperStrip(request.side)

(***************************************************************************)
(* C11.  As claimed: a run of n legs whose loop has ended has slept        *)
(* exactly n - 1 times, once between each pair of consecutive legs and     *)
(* not after the final leg.                                                *)
(***************************************************************************)
C11_DelaysBetweenLegs ==
    (pc = "aggregating" \/ (pc = "done" /\ exc = "TypeError")) =>
        Len(sleeps) = args.num - 1

(***************************************************************************)
(* C12.  As claimed: once the caller has called cancel_grid_orders for a   *)
(* symbol while the run on that symbol was between legs (a leg of it       *)
(* already submitted), no further leg of that run is submitted.            *)
(***************************************************************************)
C12_NoLegAfterCancel ==
    \A c \in 1..Len(cancels) :
        (\E k \in 1..cancels[c].after :
             submitted[k].order.symbol = cancels[c].symbol) =>
            \A k \in (cancels[c].after + 1)..Len(submitted) :
                submitted[k].order.symbol # cancels[c].symbol

\* Legs of the call of frame f whose try/except block has run.
AttemptedOf(f) ==
    IF f.pc = "sleeping" \/ (f.pc = "done" /\ f.exc = "ValueError")
    THEN f.i + 1 ELSE f.i

\* The order submissions of thread t, in order, each with the order id the
\* exchange gave it.
OwnCalls(t) ==
    SelectSeq([k \in 1..Len(submitted) |->
                  [order_id |-> k, run |-> submitted[k].run,
                   order |-> submitted[k].order, answer |-> submitted[k].answer]],
              LAMBDA c : c.run = t)

\* What a call with arguments a and the schedule sch has in its outcome
\* lists and totals after its first `upto` legs when it runs alone and the
\* exchange answers its submissions as in calls; j is the next leg (0-based)
\* and st the lists and totals so far.
RECURSIVE AloneLegs(_, _, _, _, _, _)
AloneLegs(a, sch, calls, upto, j, st) ==
    IF j >= upto THEN st
    ELSE LET order == LegOrder(a, sch.grid_prices, sch.quantities, j)
             checked == LegCheck(a, order)
         IN  IF checked.err # "none"
             THEN AloneLegs(a, sch, calls, upto, j + 1,
                      [st EXCEPT !.failed =
                          Append(@, FailedEntry(a, order, checked.msg))])
             ELSE IF calls = <<>> \/ Head(calls).order # order
             THEN [st EXCEPT !.own = FALSE]
             ELSE IF Head(calls).answer \in ApiErrors
             THEN AloneLegs(a, sch, Tail(calls), upto, j + 1,
                      [st EXCEPT !.failed =
                          Append(@, FailedEntry(a, order, Head(calls).answer))])
             ELSE LET ack == Ack(order, Head(calls).answer, Head(calls).order_id)
                      twap == a.entry \in TwapEntries
                  IN  AloneLegs(a, sch, Tail(calls), upto, j + 1,
                          [st EXCEPT
                              !.placed = Append(@, PlacedEntry(a, order, ack)),
                              !.executed = IF twap THEN RAdd(@, ack.executedQty) ELSE @,
                              !.cost = IF twap THEN RAdd(@, ack.cummulativeQuoteQty) ELSE @,
                              !.failed = IF LegLog(a) # "none"
                                         THEN Append(@, FailedEntry(a, order, LegLog(a)))
                                         ELSE @])

RunAlone(f, sch) ==
    AloneLegs(f.args, sch, OwnCalls(f.tid), AttemptedOf(f), 0,
              [placed |-> <<>>, failed |-> <<>>, executed |-> R(0),
               cost |-> R(0), own |-> TRUE])

\* The call of frame f has computed its schedule and entered its loop.
InLoop(f) ==
    \/ f.pc \in {"executing", "sleeping", "aggregating"}
    \/ f.pc = "done" /\ f.exc \in {"TypeError", "ValueError"}

C15_AllFailedAverageZero ==
    (/\ args.entry \in TwapEntries
     /\ request.duration_minutes >= 0
     /\ pc = "done"
     /\ exc # "ValidationError"
     /\ total_executed = R(0)) =>
        /\ exc # "ZeroDivisionError"
        /\ Returned
        /\ report[1].total_executed = R(0)
        /\ report[1].total_cost = R(0)
        /\ report[1].average_price = R(0)

\* A call of _calculate_grid_prices has returned.
GridPricesReturned(grid_type) ==
    /\ args.entry = "_calculate_grid_prices"
    /\ args.grid_type = grid_type
    /\ pc = "done"

(***************************************************************************)
(* C16.  _calculate_grid_prices in ARITHMETIC mode, called with            *)
(* lower < upper and n >= 2, returns n prices, strictly increasing,        *)
(* consecutive ones (upper - lower) / (n - 1) apart, the first equal to    *)
(* lower and the last equal to upper; with lower = 100, upper = 200 and    *)
(* n = 5 it returns 100, 125, 150, 175, 200.                               *)
(***************************************************************************)
C16_ArithmeticPrices ==
    (/\ GridPricesReturned("ARITHMETIC")
     /\ RLt(args.lower_price, args.upper_price)
     /\ args.num >= 2) =>
        /\ exc = "none"
        /\ Len(grid_prices) = args.num
        /\ \A k \in 1..(args.num - 1) :
               /\ RLt(grid_prices[k], grid_prices[k + 1])
               /\ RSub(grid_prices[k + 1], grid_prices[k]) =
                      RDiv(RSub(args.upper_price, args.lower_price),
                           R(args.num - 1))
        /\ grid_prices[1] = args.lower_price
        /\ grid_prices[args.num] = args.upper_price
        /\ (args.lower_price = R(100) /\ args.upper_price = R(200) /\ args.num = 5) =>
               grid_prices = <<R(100), R(125), R(150), R(175), R(200)>>

\* The call of the example has returned.
C16_Witness ==
    /\ GridPricesReturned("ARITHMETIC")
    /\ args.lower_price = R(100) /\ args.upper_price = R(200) /\ args.num = 5
    /\ Len(grid_prices) = 5

C20_VolumeProfilePreservesTotal ==
    (/\ args.entry = "_calculate_volume_profile"
     /\ pc = "done"
     /\ args.volume_profile \in
            {"UNIFORM", "FRONT_LOADED", "BACK_LOADED", "MIDDLE_LOADED"}
     /\ RLt(R(0), args.quantity)
     /\ args.num >= 2) =>
        /\ Len(quantities) = args.num
        /\ \A k \in 1..Len(quantities) : RLt(R(0), quantities[k])
        /\ RSum(quantities) = args.quantity

\* A MIDDLE_LOADED call has returned ten quantities, the middle ones larger
\* than the outer ones.
C20_Witness ==
    /\ args.entry = "_calculate_volume_profile"
    /\ pc = "done"
    /\ args.volume_profile = "MIDDLE_LOADED"
    /\ Len(quantities) = VolumeProfileChunks
    /\ RLt(quantities[1], quantities[5])
    /\ RLt(quantities[10], quantities[6])

(***************************************************************************)
(* C18.  As claimed: a place_martingale_grid call with multiplier <= 1.0   *)
(* submits nothing and ends with ValidationError; any other call submits   *)
(* its leg of 0-based index i with the quantity                            *)
(* base_quantity * multiplier^i and with the side of the request, and,     *)
(* once past validation, ends by returning a report whose total_quantity   *)
(* is the sum of these quantities.                                         *)
(***************************************************************************)
C18_MartingaleQuantities ==
    request.entry = "place_martingale_grid" =>
        /\ RLe(request.multiplier, R(1)) =>
               /\ submitted = <<>>
               /\ pc = "done" => exc = "ValidationError"
        /\ \A k \in 1..Len(submitted) :
               /\ submitted[k].order.quantity =
                      RMul(args.quantity,
                           RPow(args.multiplier, submitted[k].order.leg - 1))
               /\ submitted[k].order.side = UpperStrip(request.side)
        /\ (pc = "done" /\ exc # "ValidationError") =>
               /\ Len(submitted) = args.num
               /\ Returned
               /\ report[1].total_quantity =
                      RSum([k \in 1..args.num |->
                               RMul(args.quantity, RPow(args.multiplier, k - 1))])

\* sum plus the quote-currency amounts of legs k..n of the schedule.
RECURSIVE QuoteAmount(_, _, _)
QuoteAmount(k, n, sum) ==
    IF k > n \/ sum = None THEN sum
    ELSE QuoteAmount(k + 1, n, RAdd(sum, RMul(quantities[k], grid_prices[k])))

(***************************************************************************)
(* C19.  In a place_dca_grid call, the schedule with which the loop is     *)
(* entered has n legs, each with quantity * price = total_usdt / n, the    *)
(* sum of quantity * price over the legs is total_usdt, and a leg at a     *)
(* higher price has a smaller quantity; and every order is submitted with  *)
(* the quantity and the price of its leg, so with                          *)
(* quantity * price = total_usdt / n.                                      *)
(***************************************************************************)
C19_DcaEqualQuoteAmounts ==
    (args.entry = "place_dca_grid" /\ InLoop(Frame)) =>
        /\ (pc = "executing" /\ i = 0) =>
               /\ Len(quantities) = args.num
               /\ Len(grid_prices) = args.num
               /\ \A k \in 1..args.num :
                      RMul(quantities[k], grid_prices[k]) =
                          RDiv(args.quantity, R(args.num))
               /\ QuoteAmount(1, args.num, R(0)) = args.quantity
               /\ \A j, k \in 1..args.num :
                      RLt(grid_prices[j], grid_prices[k]) =>
                          RLt(quantities[k], quantities[j])
        /\ \A k \in 1..Len(submitted) :
               /\ submitted[k].order.quantity = quantities[submitted[k].order.leg]
               /\ submitted[k].order.price = grid_prices[submitted[k].order.leg]
               /\ RMul(submitted[k].order.quantity, submitted[k].order.price) =
                      RDiv(args.quantity, R(args.num))

\* A call with three legs or more has submitted them all, at rising prices
\* and falling quantities.
C19_Witness ==
    /\ args.entry = "place_dca_grid"
    /\ pc = "aggregating"
    /\ args.num >= 3
    /\ Len(submitted) = args.num
    /\ RLt(submitted[1].order.price, submitted[2].order.price)
    /\ RLt(submitted[2].order.quantity, submitted[1].order.quantity)

(***************************************************************************)
(* C22.  place_twap_order submits a chunk only if duration_minutes >= 1,   *)
(* 2 <= num_chunks <= 100, order_type is MARKET or LIMIT (with a valid     *)
(* price when LIMIT) and the per-chunk quantity total_quantity/num_chunks  *)
(* passes quantity validation; when one of these fails the call raises     *)
(* ValidationError and no chunk was submitted.                             *)
(***************************************************************************)
\* The conditions of C22 on the arguments the caller passed.
TwapChunkQuantityValid ==
    validate_quantity(RDiv(request.quantity, R(request.num))).err = "none"
TwapConditions ==
    /\ request.duration_minutes >= 1
    /\ request.num >= 2
    /\ request.num <= 100
    /\ request.order_type \in {"MARKET", "LIMIT"}
    /\ request.order_type = "LIMIT" =>
           request.price # None /\ validate_price(request.price).err = "none"
    /\ TwapChunkQuantityValid

C22_TwapChunkOnlyWhenValid ==
    request.entry = "place_twap_order" =>
        /\ submitted # <<>> => TwapConditions
        /\ ~TwapConditions =>
              /\ submitted = <<>>
              /\ pc \in {"validating", "scheduling", "done"}
              /\ pc = "done" => exc = "ValidationError" /\ report = <<>>

\* A call whose total quantity is valid but whose per-chunk quantity is not
\* has been rejected with nothing submitted.
C22_Witness ==
    /\ request.entry = "place_twap_order"
    /\ request.duration_minutes >= 1
    /\ request.num = 2
    /\ validate_quantity(request.quantity).err = "none"
    /\ ~TwapChunkQuantityValid
    /\ pc = "done"
    /\ exc = "ValidationError"
    /\ submitted = <<>>

(***************************************************************************)
(* C23.  As claimed: every time-sliced entry point, place_twap_order and   *)
(* place_twap_with_volume_profile alike, rejects duration_minutes < 1 with *)
(* ValidationError before any chunk is computed or submitted, so the       *)
(* inter-leg delay is always positive.                                     *)
(***************************************************************************)
C23_DurationRejectedFirst ==
    request.entry \in TwapEntries =>
        /\ request.duration_minutes < 1 =>
              /\ calc_calls = <<>>
              /\ quantities = <<>>
              /\ submitted = <<>>
              /\ pc = "done" => exc = "ValidationError"
        /\ pc \in {"executing", "sleeping", "aggregating"} =>
              RLt(R(0), interval_seconds)
        /\ \A k \in 1..Len(sleeps) : RLt(R(0), sleeps[k])

(***************************************************************************)
(* C24.  A run goes through VALIDATING, SCHEDULING, EXECUTING,             *)
(* AGGREGATING, DONE in that order and never back: the schedule is         *)
(* complete before the first order is submitted, no leg changes it, and    *)
(* the aggregate metrics are computed only after the last leg has been     *)
(* attempted.                                                              *)
(***************************************************************************)
Phase(p) ==
    CASE p = "validating" -> 1
      [] p = "scheduling" -> 2
      [] p \in {"executing", "sleeping"} -> 3
      [] p = "aggregating" -> 4
      [] OTHER -> 5

PhaseStep ==
    /\ Phase(pc') >= Phase(pc)
    /\ Phase(pc) # 2 =>
           UNCHANGED <<calc_calls, grid_prices, quantities, interval_seconds>>
    /\ Phase(pc) >= 3 => args' = args
    /\ submitted' # submitted =>
           /\ Phase(pc) = 3
           /\ Len(quantities) = args.num
           /\ submitted'[Len(submitted')].order.quantity = quantities[i + 1]
    /\ pc' = "aggregating" /\ pc # "aggregating" =>
           /\ Phase(pc) = 3
           /\ i' = args.num
           /\ Len(placed_orders') + Len(failed_orders') >= args.num
    /\ report' # report => pc = "aggregating" /\ i = args.num

C24_PhasesInOrder == [][PhaseStep]_vars

\* A run with a failed leg has gone through every leg and is aggregating.
C24_Witness ==
    /\ pc = "aggregating"
    /\ args.num >= 2
    /\ failed_orders # <<>>
    /\ Len(submitted) = args.num

(***************************************************************************)
(* C25.  As claimed: every run that has passed validation eventually       *)
(* terminates in DONE with a returned report after exactly n leg attempts, *)
(* whatever the pattern of leg successes and failures, provided each       *)
(* submit call and each delay returns.                                     *)
(***************************************************************************)
C25_ValidatedRunReturnsReport ==
    (pc = "executing") ~> (Returned /\ i = args.num)

(***************************************************************************)
(* C26.  As claimed: in the time-sliced runs, after each leg and in the    *)
(* returned report, total_executed is the sum of executed_qty and          *)
(* total_cost the sum of cummulative_quote_qty over exactly the chunks in  *)
(* executed_chunks; a chunk in failed_chunks contributed to neither total; *)
(* average_price = total_cost / total_executed when total_executed > 0.    *)
(***************************************************************************)
ExecutedQtySum ==
    RSum([k \in 1..Len(placed_orders) |-> placed_orders[k].executed_qty])
QuoteQtySum ==
    RSum([k \in 1..Len(placed_orders) |-> placed_orders[k].cummulative_quote_qty])
\* Chunks whose fill was added to the totals.
Contributed ==
    {submitted[k].order.leg : k \in {j \in 1..Len(submitted) : submitted[j].answer = "FILLED"}}

C26_TotalsOverExecutedChunks ==
    request.entry \in TwapEntries =>
        /\ total_executed = ExecutedQtySum
        /\ total_cost = QuoteQtySum
        /\ FailedLegs \cap Contributed = {}
        /\ (pc = "done" /\ i = args.num /\ args.num > 0) =>
              /\ Returned
              /\ report[1].total_executed = ExecutedQtySum
              /\ report[1].total_cost = QuoteQtySum
              /\ RLt(R(0), total_executed) =>
                     report[1].average_price = RDiv(total_cost, total_executed)

(***************************************************************************)
(* C27.  As claimed: a leg whose order-submission call returned an         *)
(* acknowledgement is recorded only as placed, and the run still returns   *)
(* its report, even if a log call made after the acknowledgement (the      *)
(* per-leg success log or the run-completed log, both passing extra_data)  *)
(* raises; a leg is in the failed list only when its submission failed.    *)
(***************************************************************************)
\* Legs the exchange acknowledged.
Acknowledged ==
    {submitted[k].order.leg : k \in {j \in 1..Len(submitted) : submitted[j].answer \in AckStatuses}}

C27_LogFailureLeavesOutcome ==
    /\ \A k \in Acknowledged : k \in PlacedLegs /\ k \notin FailedLegs
    /\ (pc = "done" /\ Acknowledged # {} /\ i = args.num) => Returned

(***************************************************************************)
(* C28.  As claimed: place_twap_with_volume_profile always schedules       *)
(* exactly 10 chunks; a chunk whose quantity fails validate_quantity is    *)
(* recorded in failed_chunks without an exchange call, the chunks after it *)
(* are still attempted after the usual delay, and the run makes 10 minus   *)
(* the number of validation failures submit calls.                         *)
(***************************************************************************)
\* Attempted chunks whose quantity validate_quantity rejects.
InvalidChunks ==
    {k \in 1..Attempted : validate_quantity(quantities[k]).err # "none"}

C28_VolumeProfileChunks ==
    (request.entry = "place_twap_with_volume_profile" /\ calc_calls # <<>>) =>
        /\ args.num = 10
        /\ Len(quantities) = 10
        /\ InvalidChunks \subseteq FailedLegs
        /\ \A k \in 1..Len(submitted) : submitted[k].order.leg \notin InvalidChunks
        /\ Len(sleeps) = IF Attempted = 0 THEN 0
                         ELSE IF pc = "sleeping" THEN Attempted - 1
                         ELSE IF Attempted = 10 THEN 9 ELSE Attempted
        /\ pc = "done" =>
              /\ Attempted = 10
              /\ Len(submitted) = 10 - Cardinality(InvalidChunks)

CallsOf(methods) == {k \in 1..Len(api_calls) : api_calls[k].method \in methods}
PriceFetches == CallsOf({"get_ticker_price"})
StopPlacements == CallsOf(StopEntries)

\* The price the exchange answered the fetch of position k with.
FetchedPrice(k) == float(api_calls[k].answer.price).val

\* The stop price the caller passed is on the wrong side of the price p.
WrongSide(p) ==
    \/ UpperStrip(request.side) = "BUY" /\ RLe(request.stop_price, p)
    \/ UpperStrip(request.side) = "SELL" /\ RLe(p, request.stop_price)

C29_StopPriceCheckedAgainstFetch ==
    request.entry \in StopEntries =>
        /\ Cardinality(PriceFetches) <= 1
        /\ Cardinality(StopPlacements) <= 1
        /\ StopPlacements # {} =>
              /\ PriceFetches = {1}
              /\ StopPlacements = {2}
              /\ ~WrongSide(FetchedPrice(1))
        /\ (/\ pc = "done"
            /\ PriceFetches # {}
            /\ api_calls[1].answer.err = "none"
            /\ float(api_calls[1].answer.price).err = "none"
            /\ WrongSide(FetchedPrice(1))) =>
              /\ exc = "ValidationError"
              /\ StopPlacements = {}
              /\ report = <<>>

\* A BUY stop order whose stop price equals the fetched price was rejected.
C29_Witness ==
    /\ request.entry \in StopEntries
    /\ request.side = "BUY"
    /\ pc = "done"
    /\ PriceFetches = {1}
    /\ api_calls[1].answer.err = "none"
    /\ float(api_calls[1].answer.price) = Ok(request.stop_price)
    /\ exc = "ValidationError"
    /\ Len(api_calls) = 1

(***************************************************************************)
(* C30.  modify_order sends the cancel only when the fetched status is     *)
(* NEW and places the replacement only after the cancel returned: the      *)
(* calls come in the order status fetch, cancel, place, and when the       *)
(* status is not NEW or the cancel fails no replacement is placed.         *)
(***************************************************************************)
StatusFetches == CallsOf({"get_order_status"})
CancelsSent == CallsOf({"cancel_order"})
Replacements == CallsOf({"place_limit_order"})

C30_CancelThenReplace ==
    request.entry = "modify_order" =>
        /\ StatusFetches \subseteq {1}
        /\ CancelsSent \subseteq {2}
        /\ Cardinality(Replacements) <= 1
        /\ CancelsSent # {} =>
              /\ StatusFetches = {1}
              /\ api_calls[1].answer.err = "none"
              /\ api_calls[1].answer.status = "NEW"
        /\ Replacements # {} =>
              /\ CancelsSent = {2}
              /\ api_calls[2].answer \notin ApiErrors
              /\ \A k \in Replacements : k > 2
        /\ (StatusFetches # {} /\ api_calls[1].answer.status # "NEW") =>
              /\ CancelsSent = {}
              /\ Replacements = {}
              /\ pc = "done" /\ exc = "Exception" /\ report = <<>>
        /\ (CancelsSent # {} /\ api_calls[2].answer \in ApiErrors) =>
              /\ Replacements = {}
              /\ pc = "done" /\ exc = "Exception" /\ report = <<>>

\* The order was FILLED when its status was fetched: the call raised with
\* the status fetch as its only call.
C30_Witness ==
    /\ request.entry = "modify_order"
    /\ pc = "done"
    /\ Len(api_calls) = 1
    /\ api_calls[1].method = "get_order_status"
    /\ api_calls[1].answer.status = "FILLED"
    /\ exc = "Exception"

====
